---- MODULE Spec2Model ----
(***************************************************************************)
(* RuGram: the SFU signaling server (src/server.js) and the call client    *)
(* (first App of src/index.tsx).                                           *)
(*                                                                         *)
(* Server part: every socket.on handler of src/server.js is one action; a  *)
(* handler that awaits the SFU (createRouter, createWebRtcTransport,       *)
(* produce, consume) is two actions, one up to the await and one for the   *)
(* continuation, so that other handlers interleave at the await exactly as *)
(* they do on the node event loop.  JavaScript objects captured before an  *)
(* await are identified by a generation number (router, gen), so that a    *)
(* continuation that writes into a room or peer object no longer reachable *)
(* from `rooms` changes nothing the registry can see.                      *)
(***************************************************************************)
EXTENDS Integers, FiniteSets, Sequences, TLC

\* ---------------------------------------------------------------- bounds
MaxRouters    == 2   \* worker.createRouter calls
MaxJoins      == 2   \* joinRoom requests per socket
MaxTransports == 1   \* createWebRtcTransport requests
MaxProducers  == 1   \* produce requests
MaxConsumers  == 1   \* consume requests that reach transport.consume
MaxNotices    == 2   \* producer-closed events counted per (socket, producer)
MaxSessions   == 2   \* call-started events one client serves (startCallSession runs)
MaxConsumes   == 2   \* consume requests one client sends
MaxMessages   == 1
MaxInFlight   == 1   \* chat messages one client shows

\* ------------------------------------------------------------ universes
Sockets      == {"a", "b"}
Kinds        == {"audio", "video"}
TransportIds == 1..MaxTransports
ProducerIds  == 1..MaxProducers
ConsumerIds  == 1..MaxConsumers

\* const roomName = `${to}-${socket.id}`
RoomName(to, s) == <<to, s>>
RoomNames == {RoomName(to, s) : to \in Sockets, s \in Sockets} \ {RoomName(s, s) : s \in Sockets}
\* let currentRoomName;  (undefined until the first joinRoom)
NoRoom == <<>>

\* ---- client universes
\* the remote producers a client is told about, with the peerId the server reports
\* for each and the kind of its consumer's track
RemoteProducers == {"p1", "p2", "p3", "p4"}
OwnerOf(p) == IF p = "p4" THEN "y" ELSE "x"
KindOf(p) == IF p \in {"p1", "p3"} THEN "audio" ELSE "video"
\* appData: { mediaType: 'video' } for the video track, 'audio' for the audio track
MediaTypeOf(p) == KindOf(p)
RemotePeerIds == {OwnerOf(p) : p \in RemoteProducers}
Callers == {"x"}
\* the room of a call between this client and x
ClientRooms == {<<"x", "me">>}
NoCall == "null"
NoProducer == "null"
SessionIds == 1..MaxSessions
ConsumeIds == 1..MaxConsumes
\* what the handlers registered by useEffect(..., []) see: the values of the first render
MountCallState == "idle"
MountLocalStream == 0
MountConsumers == [x \in {} |-> 0]
Hangups == {"leaveCall", "disconnect", "getMediaStream-failed"}

\* ---- call signalling universes
\* an id no connection has
OfflineId == "z"
CallTargets == Sockets \cup {OfflineId}

\* ---- media acquisition universes
\* the getUserMedia requests: the four videoConstraintsPresets of getMediaStream
\* (each with audio), the video request of part_000, and the audio-only request
VideoPresets == <<"hd-user", "vga-user", "user", "any">>
Requests == {VideoPresets[i] : i \in 1..4} \cup {"hd", "audio"}
\* what a request resolves to or the name of the error it rejects with
ErrorNames == {"NotAllowedError", "NotFoundError", "NotReadableError", "OverconstrainedError"}
Outcomes == {"ok"} \cup ErrorNames
NotAcquired == [video |-> FALSE, result |-> [by |-> "none"], tried |-> <<>>]
Returned(by, tracks, videoEnabled) ==
    [by |-> by, ok |-> TRUE, tracks |-> tracks, videoEnabled |-> videoEnabled]
Threw(by, name) == [by |-> by, ok |-> FALSE, error |-> name]

\* ------------------------------------------------------------ map helpers
EmptyMap == [x \in {} |-> {}]
MapPut(f, k, v) == [x \in (DOMAIN f) \cup {k} |-> IF x = k THEN v ELSE f[x]]
MapDel(f, k) == [x \in (DOMAIN f) \ {k} |-> f[x]]
SeqSet(q) == {q[i] : i \in 1..Len(q)}

VARIABLES
    \* ---- server (src/server.js)
    sockState,        \* io.sockets.sockets: "new" | "connected" | "gone" per socket id
    currentRoomName,  \* the closure variable of each connection
    sioRooms,         \* socket.io room membership (socket.join / socket.leave)
    rooms,            \* rooms: roomName -> [router, peers: socketId -> peer]
    nextRouter,       \* routers created so far
    routerClosed,     \* routers closed by router.close()
    creating,         \* createRoom calls suspended in await worker.createRouter, per room
    transportObj,     \* transport objects (and pending createWebRtcTransport calls)
    producerObj,      \* producer objects (and pending transport.produce calls)
    consumerObj,      \* consumer objects (and pending transport.consume calls), with the
                      \* socket whose resume request resumed them
    joinSeq,          \* joinRoom requests served per socket (the peer object's generation)
    \* ---- what the server has sent to each socket
    joinReply,        \* the existingProducers array of the socket's latest joinRoom reply, per room
    joined,           \* the room names of the socket's joinRoom requests served, in order
    heard,            \* new-producer events delivered: <<producerId, joinSeq at delivery>>
    notices           \* producer-closed events delivered, per socket and producer id

VARIABLES
    \* ---- client (first App of src/index.tsx)
    socketConnected,     \* socketRef.current.connected
    myId,                \* useState myId (FALSE: null)
    callState,           \* useState callState
    incomingCallData,    \* useState incomingCallData (the caller, or NoCall)
    localStream,         \* useState localStream: 0 (null) or the session that acquired it
    liveStreams,         \* acquired streams whose tracks have not been stopped
    consumers,           \* useState consumers: producerId -> consumer
    remotePeers,         \* useState remotePeers: peerId -> RemotePeerData
    speakingStates,      \* useState speakingStates: id -> BOOLEAN
    messages,            \* useState messages
    currentRoomNameRef,  \* useRef
    deviceRef,           \* useRef: 0 (null) or the session that loaded the device
    sendTransportRef,    \* useRef: 0 (null) or a client transport
    recvTransportRef,    \* useRef: 0 (null) or a client transport
    closedTransports,    \* client transports that were closed
    analysisRefs,        \* useRef analysisRefs: id -> state of the frame it stored
    leaked,              \* ids with a checkVolume loop no analysisRefs entry can cancel
    audioContextRef,     \* useRef: "null" | "open"
    sessions,            \* startCallSession runs and the step each one waits in
    consumeCalls,        \* consume() calls and the consumers they created, with the
                         \* resume each one emitted
    lastEvent            \* the handler that ran last when it was a consume result, a
                         \* new-producer, a producer-closed or a hang-up ("other" otherwise), with the
                         \* number of tracks it found in the remotePeers entry it updated

VARIABLES
    \* ---- media acquisition (getMediaStream of src/index.tsx, joinRoom of part_000)
    gum,                 \* navigator.mediaDevices.getUserMedia: outcome per request
    acquired             \* the last media acquisition: video asked for, and what it returned or threw

VARIABLES
    \* ---- call signalling between the clients and the server
    ui,                  \* per connection, the App's callState and incomingCallData and
                         \* the startCallSession runs that have not reached in-call yet
    toServer,            \* per connection, events the client emitted, not yet handled
    toClient,            \* per connection, events the server emitted, not yet handled
    did                  \* the signalling handler that ran last and where, when it was an
                         \* incoming-call, a decline or a peer-unavailable ("other" otherwise)

VARIABLES
    \* ---- the choice of the transport a consumer is created on
    peerSetup,           \* one PeerSession: the isSender of its createWebRtcTransport
                         \* requests in the order they were served, and whether it produced
    bound                \* the last consume request served for it: by which server, and the
                         \* transport it chose (0: none, an error reply)

VARIABLES
    \* ---- the contacts server (src/unnamed/part_007)
    contactSock,         \* its connections: "new" | "connected" | "gone" per socket id
    users,               \* users: deviceId -> socketId
    socketToUser,        \* socketToUser: socket.id -> deviceId
    registered           \* per deviceId, the socket of the last register event for it
                         \* (NoSocket before the first)

VARIABLES
    \* ---- the two-client WebSocket signaling server (src/unnamed/part_004)
    wsState,             \* its connections: "new" | "open" | "closed" per client
    clientRoom,          \* the closure variable clientRoom of each connection
    wsRooms,             \* rooms: room -> the array of its clients
    relayed              \* the last offer, answer or ice-candidate that was handled:
                         \* who sent it, to whom it was relayed (NoSocket: dropped),
                         \* and the room array that was read

VARIABLES
    \* ---- replies of the server to the requests that carry a callback
    lastReply            \* the last such request that was answered or dropped by a guard
                         \* of its handler: the request, whether it broke the protocol,
                         \* and what the requester got back

serverVars == <<sockState, currentRoomName, sioRooms, rooms, nextRouter, routerClosed,
                creating, transportObj, producerObj, consumerObj, joinSeq>>
sentVars == <<joinReply, joined, heard, notices>>
sockVars == <<socketConnected, myId>>
callVars == <<callState, incomingCallData>>
mediaVars == <<localStream, liveStreams>>
remoteVars == <<consumers, remotePeers>>
analysisVars == <<speakingStates, analysisRefs, leaked, audioContextRef>>
refVars == <<currentRoomNameRef, deviceRef, sendTransportRef, recvTransportRef, closedTransports>>
asyncVars == <<sessions, consumeCalls>>
clientVars == <<sockVars, callVars, mediaVars, remoteVars, analysisVars, refVars, asyncVars,
                messages, lastEvent>>
mediaProbeVars == <<gum, acquired>>
signalVars == <<ui, toServer, toClient, did>>
replyVars == <<lastReply>>
bindVars == <<peerSetup, bound>>
contactVars == <<contactSock, users, socketToUser, registered>>
relayVars == <<wsState, clientRoom, wsRooms, relayed>>
extVars == <<mediaProbeVars, signalVars, replyVars, bindVars, contactVars, relayVars>>
vars == <<serverVars, sentVars, clientVars, extVars>>

\* ------------------------------------------------------------ server helpers
Connected(s) == sockState[s] = "connected"

\* socket.to(roomName): every socket joined to the socket.io room except the sender
Members(r) == {b \in Sockets : r \in sioRooms[b]}
BroadcastTo(s, r) == Members(r) \ {s}

\* const peer = { transports: new Map(), producers: new Map(), consumers: new Map() }
NewPeer(g) == [gen |-> g, transports |-> <<>>, producers |-> {}, consumers |-> {}]

\* rooms[roomName].peers.forEach(... peerData.producers.forEach(... existingProducers.push
\* ({ id: producer.id, appData: producer.appData, peerId })
ExistingProducers(r) ==
    {pb \in ProducerIds \X (DOMAIN rooms[r].peers) : pb[1] \in rooms[r].peers[pb[2]].producers}

\* the room that holds the peer object (socket s, generation g), if `rooms` still reaches it
RoomsOfPeer(s, g) ==
    {r \in DOMAIN rooms : s \in DOMAIN rooms[r].peers /\ rooms[r].peers[s].gen = g}
\* the room whose room object owns router n, if `rooms` still reaches it
RoomsOfRouter(n) == {r \in DOMAIN rooms : rooms[r].router = n}

\* producer.close(): nothing when already closed
ClosingNow(ps) == {p \in ps : producerObj[p].state = "open"}
\* consumers whose 'producerclose' listener fires when p closes
ConsumersOn(p) == {c \in DOMAIN consumerObj :
                     consumerObj[c].state = "open" /\ consumerObj[c].producer = p}
ProducersClosed(ps) ==
    [p \in DOMAIN producerObj |->
        IF p \in ClosingNow(ps) THEN [producerObj[p] EXCEPT !.state = "closed"]
        ELSE producerObj[p]]
\* a consumer is closed with its producer (mediasoup) or with its transport
ConsumersClosed(ps, ts) ==
    [c \in DOMAIN consumerObj |->
        IF consumerObj[c].state = "open" /\
           (consumerObj[c].producer \in ClosingNow(ps) \/ consumerObj[c].transport \in ts)
        THEN [consumerObj[c] EXCEPT !.state = "closed"]
        ELSE consumerObj[c]]

\* producer-closed events one handler run sends to socket b for producer p:
\*   consumer.on('producerclose', () => socket.emit('producer-closed', ...))   per consumer
\*   socket.to(currentRoomName).emit('producer-closed', ...)                   per producer
\* `closing` are the producers the run closes, `announced` those it broadcasts for,
\* `live` the sockets still connected while the handler runs.
ClosedNotices(s, r, closing, announced, live, b, p) ==
    (IF p \in ClosingNow(closing) /\ b \in live
        THEN Cardinality({c \in ConsumersOn(p) : consumerObj[c].socket = b}) ELSE 0)
    + (IF p \in announced /\ b \in BroadcastTo(s, r) /\ b \in live THEN 1 ELSE 0)
NoticesAfter(s, r, closing, announced, live) ==
    [b \in Sockets |-> [p \in ProducerIds |->
        notices[b][p] + ClosedNotices(s, r, closing, announced, live, b, p)]]
NoticesFit(s, r, closing, announced, live) ==
    \A b \in Sockets, p \in ProducerIds :
        notices[b][p] + ClosedNotices(s, r, closing, announced, live, b, p) <= MaxNotices

\* the joinSeq of socket b at its first and at its latest joinRoom of room r
JoinsOf(b, r) == {i \in 1..Len(joined[b]) : joined[b][i] = r}
FirstJoin(b, r) == CHOOSE i \in JoinsOf(b, r) : \A j \in JoinsOf(b, r) : i <= j
LastJoin(b, r) == CHOOSE i \in JoinsOf(b, r) : \A j \in JoinsOf(b, r) : i >= j

\* createRoom calls suspended in the await, over all room names
RECURSIVE SumCreating(_)
SumCreating(rs) ==
    IF rs = {} THEN 0
    ELSE LET r == CHOOSE x \in rs : TRUE IN creating[r] + SumCreating(rs \ {r})

\* ------------------------------------------------------------------ Init
InitApp ==
    /\ sockState = [s \in Sockets |-> "new"]
    /\ currentRoomName = [s \in Sockets |-> NoRoom]
    /\ sioRooms = [s \in Sockets |-> {}]
    /\ rooms = EmptyMap
    /\ nextRouter = 0
    /\ routerClosed = {}
    /\ creating = [r \in RoomNames |-> 0]
    /\ transportObj = EmptyMap
    /\ producerObj = EmptyMap
    /\ consumerObj = EmptyMap
    /\ joinSeq = [s \in Sockets |-> 0]
    /\ joinReply = [s \in Sockets |-> [r \in RoomNames |-> {}]]
    /\ joined = [s \in Sockets |-> <<>>]
    /\ heard = [s \in Sockets |-> {}]
    /\ notices = [s \in Sockets |-> [p \in ProducerIds |-> 0]]
    /\ socketConnected = FALSE
    /\ myId = FALSE
    /\ callState = "idle"
    /\ incomingCallData = NoCall
    /\ localStream = 0
    /\ liveStreams = {}
    /\ consumers = EmptyMap
    /\ remotePeers = EmptyMap
    /\ speakingStates = EmptyMap
    /\ messages = <<>>
    /\ currentRoomNameRef = NoRoom
    /\ deviceRef = 0
    /\ sendTransportRef = 0
    /\ recvTransportRef = 0
    /\ closedTransports = {}
    /\ analysisRefs = EmptyMap
    /\ leaked = {}
    /\ audioContextRef = "null"
    /\ sessions = <<>>
    /\ consumeCalls = <<>>
    /\ lastEvent = [name |-> "other", arg |-> <<>>, had |-> 0, afterHangup |-> FALSE]

\* a device that grants every request, no acquisition made
InitMediaProbe ==
    /\ gum = [q \in Requests |-> "ok"]
    /\ acquired = NotAcquired

\* every App idle, nothing emitted
InitSignal ==
    /\ ui = [s \in Sockets |-> [callState |-> "idle", incomingCallData |-> NoCall,
                                setups |-> 0]]
    /\ toServer = [s \in Sockets |-> <<>>]
    /\ toClient = [s \in Sockets |-> <<>>]
    /\ did = [name |-> "none", at |-> NoCall]

\* no request made
NoRequest == [request |-> "none", violation |-> FALSE, reply |-> "none"]
InitReply == lastReply = NoRequest

\* a PeerSession without transports, no consume served
NotBound == [by |-> "none", transport |-> 0]
InitBind ==
    /\ peerSetup = [asked |-> <<>>, produced |-> FALSE]
    /\ bound = NotBound

\* the contacts server: const users = new Map(); const socketToUser = new Map()
NoSocket == "none"
ContactSockets == {"s1", "s2", "s3"}
DeviceIds == {"d1", "d2"}
InitContacts ==
    /\ contactSock = [s \in ContactSockets |-> "new"]
    /\ users = EmptyMap
    /\ socketToUser = EmptyMap
    /\ registered = [d \in DeviceIds |-> NoSocket]

\* the WebSocket signaling server: const rooms = {}; let clientRoom = null
WsClients == {"w1", "w2", "w3"}
WsRoomNames == {"r1", "r2"}
NotRelayed == [from |-> NoSocket, to |-> NoSocket, room |-> <<>>]
InitRelay ==
    /\ wsState = [c \in WsClients |-> "new"]
    /\ clientRoom = [c \in WsClients |-> NoRoom]
    /\ wsRooms = EmptyMap
    /\ relayed = NotRelayed

Init == InitApp /\ InitMediaProbe /\ InitSignal /\ InitReply /\ InitBind /\ InitContacts /\ InitRelay

\* ------------------------------------------------------------ server actions
\* io.on('connection', (socket) => { let currentRoomName; ... })
Connection(s) ==
    /\ sockState[s] = "new"
    /\ sockState' = [sockState EXCEPT ![s] = "connected"]
    /\ UNCHANGED <<currentRoomName, sioRooms, rooms, nextRouter, routerClosed, creating,
                   transportObj, producerObj, consumerObj, joinSeq, sentVars, clientVars, extVars>>

\* socket.on('call-accepted') up to `await worker.createRouter` inside createRoom.
\* When the caller is gone the handler returns; when the room exists createRoom
\* returns it and nothing in the registry changes.
CallAccepted(s, to) ==
    /\ Connected(s)
    /\ to # s
    /\ Connected(to)
    /\ RoomName(to, s) \notin DOMAIN rooms
    /\ nextRouter + SumCreating(RoomNames) < MaxRouters
    /\ creating' = [creating EXCEPT ![RoomName(to, s)] = @ + 1]
    /\ UNCHANGED <<sockState, currentRoomName, sioRooms, rooms, nextRouter, routerClosed,
                   transportObj, producerObj, consumerObj, joinSeq, sentVars, clientVars, extVars>>

\* createRoom after the await: rooms[roomName] = { router, peers: new Map() }
CreateRoomDone(r) ==
    /\ creating[r] > 0
    /\ creating' = [creating EXCEPT ![r] = @ - 1]
    /\ nextRouter' = nextRouter + 1
    /\ rooms' = MapPut(rooms, r, [router |-> nextRouter + 1, peers |-> EmptyMap])
    /\ UNCHANGED <<sockState, currentRoomName, sioRooms, routerClosed,
                   transportObj, producerObj, consumerObj, joinSeq, sentVars, clientVars, extVars>>

\* socket.on('joinRoom')
JoinRoom(s, r) ==
    /\ Connected(s)
    /\ r \in DOMAIN rooms
    /\ joinSeq[s] < MaxJoins
    /\ currentRoomName' = [currentRoomName EXCEPT ![s] = r]
    /\ sioRooms' = [sioRooms EXCEPT ![s] = @ \cup {r}]
    /\ joinSeq' = [joinSeq EXCEPT ![s] = @ + 1]
    /\ rooms' = [rooms EXCEPT ![r].peers = MapPut(@, s, NewPeer(joinSeq[s] + 1))]
    /\ joinReply' = [joinReply EXCEPT ![s][r] = ExistingProducers(r)]
    /\ joined' = [joined EXCEPT ![s] = Append(@, r)]
    /\ UNCHANGED <<sockState, nextRouter, routerClosed, creating,
                   transportObj, producerObj, consumerObj, heard, notices, clientVars, extVars>>

\* socket.on('leaveRoom')
LeaveRoom(s) ==
    LET r == currentRoomName[s]
        ps == IF s \in DOMAIN rooms[r].peers THEN rooms[r].peers[s].producers ELSE {}
        live == {b \in Sockets : Connected(b)}
    IN  /\ Connected(s)
        /\ r # NoRoom
        /\ r \in DOMAIN rooms
        /\ NoticesFit(s, r, ps, ps, live)
        /\ sioRooms' = [sioRooms EXCEPT ![s] = @ \ {r}]
        /\ producerObj' = ProducersClosed(ps)
        /\ consumerObj' = ConsumersClosed(ps, {})
        /\ notices' = NoticesAfter(s, r, ps, ps, live)
        /\ UNCHANGED <<sockState, currentRoomName, rooms, nextRouter, routerClosed, creating,
                       transportObj, joinSeq, joinReply, joined, heard, clientVars, extVars>>

\* transport.close() for every transport in ts
TransportsClosed(ts) ==
    [t \in DOMAIN transportObj |->
        IF t \in ts /\ transportObj[t].state = "open"
        THEN [transportObj[t] EXCEPT !.state = "closed"] ELSE transportObj[t]]
ProducersOn(ts) == {p \in DOMAIN producerObj : producerObj[p].transport \in ts}

\* socket.on('disconnect'); socket.io has removed the socket from its rooms before
\* the handler runs.  peer.producers are closed and announced, peer.transports are
\* closed (which closes what was produced on them), the peer is deleted, and an
\* empty room is deleted after router.close() (which closes every transport of
\* the router without further events).
Disconnect(s) ==
    LET r == currentRoomName[s]
        hasPeer == r # NoRoom /\ r \in DOMAIN rooms /\ s \in DOMAIN rooms[r].peers
        peer == rooms[r].peers[s]
        ps == IF hasPeer THEN peer.producers ELSE {}
        ts == IF hasPeer THEN SeqSet(peer.transports) ELSE {}
        live == {b \in Sockets : Connected(b)} \ {s}
        empty == hasPeer /\ DOMAIN rooms[r].peers = {s}
        rts == IF empty
               THEN {t \in DOMAIN transportObj : transportObj[t].router = rooms[r].router}
               ELSE {}
        closing == ps \cup ProducersOn(ts)
    IN  /\ Connected(s)
        /\ NoticesFit(s, r, closing, ps, live)
        /\ sockState' = [sockState EXCEPT ![s] = "gone"]
        /\ sioRooms' = [sioRooms EXCEPT ![s] = {}]
        /\ producerObj' = ProducersClosed(closing \cup ProducersOn(rts))
        /\ consumerObj' = ConsumersClosed(closing \cup ProducersOn(rts), ts \cup rts)
        /\ transportObj' = TransportsClosed(ts \cup rts)
        /\ notices' = NoticesAfter(s, r, closing, ps, live)
        /\ rooms' = IF ~hasPeer THEN rooms
                    ELSE IF empty THEN MapDel(rooms, r)
                    ELSE [rooms EXCEPT ![r].peers = MapDel(@, s)]
        /\ routerClosed' = IF empty THEN routerClosed \cup {rooms[r].router} ELSE routerClosed
        /\ UNCHANGED <<currentRoomName, nextRouter, creating, joinSeq,
                       joinReply, joined, heard, clientVars, extVars>>

\* socket.on('createWebRtcTransport') up to `await room.router.createWebRtcTransport`
CreateWebRtcTransport(s, isSender) ==
    LET r == currentRoomName[s]
        t == Cardinality(DOMAIN transportObj) + 1
    IN  /\ Connected(s)
        /\ r \in DOMAIN rooms
        /\ t <= MaxTransports
        /\ transportObj' = MapPut(transportObj, t,
               [state |-> "pending", isSender |-> isSender, socket |-> s,
                router |-> rooms[r].router])
        /\ UNCHANGED <<sockState, currentRoomName, sioRooms, rooms, nextRouter, routerClosed,
                       creating, producerObj, consumerObj, joinSeq, sentVars, clientVars, extVars>>

\* ... after the await: const peer = room.peers.get(socket.id);
\* peer.transports.set(transport.id, transport); callback(...).
\* `room` is the object read before the await.  On a closed router the await
\* rejects.  When the peer is missing, peer.transports throws after the transport
\* was created, and the transport stays on the router outside every peer.
CreateWebRtcTransportDone(t) ==
    LET n == transportObj[t].router
        s == transportObj[t].socket
        here == {r \in RoomsOfRouter(n) : s \in DOMAIN rooms[r].peers}
    IN  /\ t \in DOMAIN transportObj
        /\ transportObj[t].state = "pending"
        /\ transportObj' = [transportObj EXCEPT ![t].state =
                               IF n \in routerClosed THEN "failed" ELSE "open"]
        /\ rooms' = IF n \in routerClosed THEN rooms
                    ELSE [r \in DOMAIN rooms |->
                            IF r \in here
                            THEN [rooms[r] EXCEPT !.peers[s].transports = Append(@, t)]
                            ELSE rooms[r]]
        /\ UNCHANGED <<sockState, currentRoomName, sioRooms, nextRouter, routerClosed,
                       creating, producerObj, consumerObj, joinSeq, sentVars, clientVars, extVars>>

\* socket.on('produce') up to `await transport.produce`; kind, rtpParameters and
\* appData go to the SFU unread
Produce(s, t) ==
    LET r == currentRoomName[s]
        p == Cardinality(DOMAIN producerObj) + 1
    IN  /\ Connected(s)
        /\ r \in DOMAIN rooms
        /\ s \in DOMAIN rooms[r].peers
        /\ t \in SeqSet(rooms[r].peers[s].transports)
        /\ p <= MaxProducers
        /\ producerObj' = MapPut(producerObj, p,
               [state |-> "pending", transport |-> t, socket |-> s,
                gen |-> rooms[r].peers[s].gen])
        /\ UNCHANGED <<sockState, currentRoomName, sioRooms, rooms, nextRouter, routerClosed,
                       creating, transportObj, consumerObj, joinSeq, sentVars, clientVars, extVars>>

\* the sockets the new-producer broadcast of socket s reaches:
\* socket.to(currentRoomName).emit('new-producer', ...), currentRoomName read after the await
NewProducerRecipients(s) == BroadcastTo(s, currentRoomName[s])

\* ... after the await: peer.producers.set(producer.id, producer);
\* socket.to(currentRoomName).emit('new-producer', ...); callback({ id }).
\* `peer` is the object read before the await.
ProduceDone(p) ==
    LET s == producerObj[p].socket
        here == RoomsOfPeer(s, producerObj[p].gen)
    IN  /\ p \in DOMAIN producerObj
        /\ producerObj[p].state = "pending"
        /\ producerObj' = [producerObj EXCEPT ![p].state = "open"]
        /\ rooms' = [r \in DOMAIN rooms |->
                        IF r \in here
                        THEN [rooms[r] EXCEPT !.peers[s].producers = @ \cup {p}]
                        ELSE rooms[r]]
        /\ heard' = [b \in Sockets |->
                        IF b \in NewProducerRecipients(s)
                        THEN heard[b] \cup {<<p, joinSeq[b]>>} ELSE heard[b]]
        /\ UNCHANGED <<sockState, currentRoomName, sioRooms, nextRouter, routerClosed,
                       creating, transportObj, consumerObj, joinSeq,
                       joinReply, joined, notices, clientVars, extVars>>

\* `await transport.produce` rejects (the SFU refuses the request)
ProduceFailed(p) ==
    /\ p \in DOMAIN producerObj
    /\ producerObj[p].state = "pending"
    /\ producerObj' = [producerObj EXCEPT ![p].state = "failed"]
    /\ UNCHANGED <<sockState, currentRoomName, sioRooms, rooms, nextRouter, routerClosed,
                   creating, transportObj, consumerObj, joinSeq, sentVars, clientVars, extVars>>

\* room.router.canConsume({ producerId, rtpCapabilities }): the producer lives on this router
CanConsume(r, p) ==
    /\ p \in DOMAIN producerObj
    /\ producerObj[p].state = "open"
    /\ transportObj[producerObj[p].transport].router = rooms[r].router

\* Array.from(peer.transports.values()).find(t => t.appData.isSender !== true)
RecvTransports(q) == {i \in 1..Len(q) : transportObj[q[i]].isSender # TRUE}
FindRecvTransport(q) == q[CHOOSE i \in RecvTransports(q) : \A j \in RecvTransports(q) : i <= j]

\* socket.on('consume') up to `await transport.consume`; the error replies change nothing
Consume(s, p) ==
    LET r == currentRoomName[s]
        c == Cardinality(DOMAIN consumerObj) + 1
        peer == rooms[r].peers[s]
    IN  /\ Connected(s)
        /\ r \in DOMAIN rooms
        /\ CanConsume(r, p)
        /\ s \in DOMAIN rooms[r].peers
        /\ RecvTransports(peer.transports) # {}
        /\ c <= MaxConsumers
        /\ consumerObj' = MapPut(consumerObj, c,
               [state |-> "pending", producer |-> p, socket |-> s, gen |-> peer.gen,
                transport |-> FindRecvTransport(peer.transports), paused |-> TRUE,
                resumedBy |-> NoCall])
        /\ UNCHANGED <<sockState, currentRoomName, sioRooms, rooms, nextRouter, routerClosed,
                       creating, transportObj, producerObj, joinSeq, sentVars, clientVars, extVars>>

\* ... after the await: peer.consumers.set(consumer.id, consumer);
\* consumer.on('producerclose', ...); callback({ id, producerId, kind, rtpParameters })
ConsumeDone(c) ==
    LET s == consumerObj[c].socket
        here == RoomsOfPeer(s, consumerObj[c].gen)
    IN  /\ c \in DOMAIN consumerObj
        /\ consumerObj[c].state = "pending"
        /\ consumerObj' = [consumerObj EXCEPT ![c].state = "open"]
        /\ rooms' = [r \in DOMAIN rooms |->
                        IF r \in here
                        THEN [rooms[r] EXCEPT !.peers[s].consumers = @ \cup {c}]
                        ELSE rooms[r]]
        /\ UNCHANGED <<sockState, currentRoomName, sioRooms, nextRouter, routerClosed,
                       creating, transportObj, producerObj, joinSeq, sentVars, clientVars, extVars>>

\* `await transport.consume` rejects: catch (error) { callback({ error }) }
ConsumeFailed(c) ==
    /\ c \in DOMAIN consumerObj
    /\ consumerObj[c].state = "pending"
    /\ consumerObj' = [consumerObj EXCEPT ![c].state = "failed"]
    /\ UNCHANGED <<sockState, currentRoomName, sioRooms, rooms, nextRouter, routerClosed,
                   creating, transportObj, producerObj, joinSeq, sentVars, clientVars, extVars>>

ServerNext ==
    \/ \E s \in Sockets : Connection(s)
    \/ \E s \in Sockets, to \in Sockets : CallAccepted(s, to)
    \/ \E r \in RoomNames : CreateRoomDone(r)
    \/ \E s \in Sockets, r \in RoomNames : JoinRoom(s, r)
    \/ \E s \in Sockets : LeaveRoom(s)
    \/ \E s \in Sockets : Disconnect(s)
    \/ \E s \in Sockets, isSender \in BOOLEAN : CreateWebRtcTransport(s, isSender)
    \/ \E t \in TransportIds : CreateWebRtcTransportDone(t)
    \/ \E s \in Sockets, t \in TransportIds : Produce(s, t)
    \/ \E p \in ProducerIds : ProduceDone(p)
    \/ \E p \in ProducerIds : ProduceFailed(p)
    \/ \E s \in Sockets, p \in ProducerIds : Consume(s, p)
    \/ \E c \in ConsumerIds : ConsumeDone(c)
    \/ \E c \in ConsumerIds : ConsumeFailed(c)

\* ------------------------------------------------------------ client helpers
\* socketRef.current?.id || 'local'
LocalId == IF socketConnected THEN "me" ELSE "local"
Event(name, arg, had) ==
    [name |-> name, arg |-> arg, had |-> had, afterHangup |-> lastEvent.name \in Hangups]

\* consumer.track.kind of the consumer that consume() call k created
TrackKind(k) == KindOf(consumeCalls[k].producer)
TracksOfKind(tracks, kind) == LET Test(t) == TrackKind(t) = kind IN SelectSeq(tracks, Test)

\* setupAudioAnalysis(stream, id): nothing without an audio track, when id is
\* analysed already, or without an AudioContext
setupAudioAnalysis(refs, hasAudio, id, context) ==
    IF ~hasAudio \/ id \in DOMAIN refs \/ context = "null" THEN refs
    ELSE MapPut(refs, id, "pending")

\* stopAudioAnalysis(id) for every id in ids.  cancelAnimationFrame gets the id of
\* the first frame, the one analysisRefs stored: once that frame has run, the loop
\* goes on.
StoppedRefs(refs, ids) == [x \in (DOMAIN refs) \ ids |-> refs[x]]
StoppedLeaked(refs, ids) == leaked \cup {x \in ids \cap DOMAIN refs : refs[x] = "running"}
StoppedSpeaking(sp, ids) == [x \in (DOMAIN sp) \ ids |-> sp[x]]

\* existingTracks without the filter on the kind
ExistingTracksUnfiltered(oldTracks, kind) == oldTracks

\* consume, setRemotePeers: existingTracks = oldData?.stream?.getTracks()
\*     .filter(t => t.kind !== track.kind) || []
ExistingTracks(oldTracks, kind) ==
    LET Test(t) == TrackKind(t) # kind IN SelectSeq(oldTracks, Test)

\* consume, the setRemotePeers updater for the consumer of call k
AttachTrack(prev, k) ==
    LET p == consumeCalls[k].producer
        peerId == OwnerOf(p)
        has == peerId \in DOMAIN prev
        newData == [ stream |-> Append(ExistingTracks(IF has THEN prev[peerId].stream ELSE <<>>,
                                                      TrackKind(k)), k),
                     videoProducerId |-> IF MediaTypeOf(p) = "video" THEN p
                                         ELSE IF has THEN prev[peerId].videoProducerId
                                         ELSE NoProducer,
                     audioProducerId |-> IF MediaTypeOf(p) = "audio" THEN p
                                         ELSE IF has THEN prev[peerId].audioProducerId
                                         ELSE NoProducer ]
    IN  MapPut(prev, peerId, newData)

\* handleProducerClosed: the entry the for loop stops at (one peerId per producer)
PeersToUpdate(prev, producerId) ==
    {id \in DOMAIN prev :
        prev[id].videoProducerId = producerId \/ prev[id].audioProducerId = producerId}
\* trackToRemove: getVideoTracks()[0] or getAudioTracks()[0], as a sequence of 0 or 1 tracks
TrackToRemove(oldData, producerId) ==
    LET found == TracksOfKind(oldData.stream,
                     IF oldData.videoProducerId = producerId THEN "video" ELSE "audio")
    IN  IF found = <<>> THEN <<>> ELSE <<Head(found)>>
\* remainingTracks without the filter on the id of the removed track
RemainingTracksUnfiltered(oldData, producerId) == oldData.stream
RemainingTracks(oldData, producerId) ==
    LET Test(t) == t # Head(TrackToRemove(oldData, producerId))
    IN  SelectSeq(oldData.stream, Test)
\* handleProducerClosed, the setRemotePeers updater
RemoveProducer(prev, producerId) ==
    IF PeersToUpdate(prev, producerId) = {} THEN prev
    ELSE LET id == CHOOSE x \in PeersToUpdate(prev, producerId) : TRUE
             oldData == prev[id]
         IN  IF TrackToRemove(oldData, producerId) = <<>> THEN MapDel(prev, id)
             ELSE IF RemainingTracks(oldData, producerId) = <<>> THEN MapDel(prev, id)
             ELSE IF oldData.videoProducerId = producerId
             THEN MapPut(prev, id, [oldData EXCEPT
                      !.stream = RemainingTracks(oldData, producerId),
                      !.videoProducerId = NoProducer])
             ELSE MapPut(prev, id, [oldData EXCEPT
                      !.stream = RemainingTracks(oldData, producerId),
                      !.audioProducerId = NoProducer])
\* ... and the ids it calls stopAudioAnalysis for
StoppedByClose(prev, producerId) ==
    {id \in PeersToUpdate(prev, producerId) :
        \/ TrackToRemove(prev[id], producerId) = <<>>
        \/ RemainingTracks(prev[id], producerId) = <<>>
        \/ prev[id].videoProducerId # producerId}

\* transport.close() closes the consumers of the transport
ConsumersOfClosed(ts) ==
    [k \in DOMAIN consumeCalls |->
        IF consumeCalls[k].stage = "open" /\ consumeCalls[k].transport \in ts
        THEN [consumeCalls[k] EXCEPT !.stage = "closed"] ELSE consumeCalls[k]]

\* cleanUp() without the reset of the two transport refs
cleanUpKeepsTransports(closureStream) ==
    /\ analysisRefs' = EmptyMap
    /\ leaked' = StoppedLeaked(analysisRefs, DOMAIN analysisRefs)
    /\ audioContextRef' = "null"
    /\ liveStreams' = liveStreams \ {closureStream}
    /\ closedTransports' = closedTransports \cup ({sendTransportRef, recvTransportRef} \ {0})
    /\ consumeCalls' = ConsumersOfClosed({sendTransportRef, recvTransportRef} \ {0})
    /\ callState' = "idle"
    /\ incomingCallData' = NoCall
    /\ localStream' = 0
    /\ remotePeers' = EmptyMap
    /\ consumers' = EmptyMap
    /\ speakingStates' = EmptyMap
    /\ messages' = <<>>
    /\ currentRoomNameRef' = NoRoom
    /\ deviceRef' = 0
    /\ UNCHANGED <<sendTransportRef, recvTransportRef>>

\* cleanUp(); closureStream is the localStream of the render the caller closed over
cleanUp(closureStream) ==
    /\ analysisRefs' = EmptyMap
    /\ leaked' = StoppedLeaked(analysisRefs, DOMAIN analysisRefs)
    /\ audioContextRef' = "null"
    /\ liveStreams' = liveStreams \ {closureStream}
    /\ closedTransports' = closedTransports \cup ({sendTransportRef, recvTransportRef} \ {0})
    /\ consumeCalls' = ConsumersOfClosed({sendTransportRef, recvTransportRef} \ {0})
    /\ callState' = "idle"
    /\ incomingCallData' = NoCall
    /\ localStream' = 0
    /\ remotePeers' = EmptyMap
    /\ consumers' = EmptyMap
    /\ speakingStates' = EmptyMap
    /\ messages' = <<>>
    /\ currentRoomNameRef' = NoRoom
    /\ deviceRef' = 0
    /\ sendTransportRef' = 0
    /\ recvTransportRef' = 0

\* ------------------------------------------------------------ client actions
\* socket.on('connect')
OnConnect ==
    /\ ~socketConnected
    /\ socketConnected' = TRUE
    /\ myId' = TRUE
    /\ lastEvent' = Event("other", <<>>, 0)
    /\ UNCHANGED <<extVars, serverVars, sentVars, callVars, mediaVars, remoteVars, analysisVars,
                   refVars, asyncVars, messages>>

\* socket.on('incoming-call'): callState is the value the handler closed over at mount
OnIncomingCall(from) ==
    /\ socketConnected
    /\ IF MountCallState # "idle" THEN UNCHANGED callVars
       ELSE incomingCallData' = from /\ callState' = "receiving"
    /\ lastEvent' = Event("other", <<>>, 0)
    /\ UNCHANGED <<extVars, serverVars, sentVars, sockVars, mediaVars, remoteVars, analysisVars,
                   refVars, asyncVars, messages>>

\* handleCall, from the call buttons of the idle screen (disabled while calling)
handleCall ==
    /\ myId
    /\ callState = "idle" \/ (callState = "receiving" /\ incomingCallData = NoCall)
    /\ callState' = "calling"
    /\ lastEvent' = Event("other", <<>>, 0)
    /\ UNCHANGED <<extVars, serverVars, sentVars, sockVars, incomingCallData, mediaVars, remoteVars,
                   analysisVars, refVars, asyncVars, messages>>

\* handleDeclineCall, from the incoming-call modal
handleDeclineCall ==
    /\ callState = "receiving"
    /\ incomingCallData # NoCall
    /\ callState' = "idle"
    /\ incomingCallData' = NoCall
    /\ lastEvent' = Event("other", <<>>, 0)
    /\ UNCHANGED <<extVars, serverVars, sentVars, sockVars, mediaVars, remoteVars, analysisVars,
                   refVars, asyncVars, messages>>

\* socket.on('peer-unavailable')
OnPeerUnavailable ==
    /\ socketConnected
    /\ callState' = "idle"
    /\ lastEvent' = Event("other", <<>>, 0)
    /\ UNCHANGED <<extVars, serverVars, sentVars, sockVars, incomingCallData, mediaVars, remoteVars,
                   analysisVars, refVars, asyncVars, messages>>

\* socket.on('peer-declined')
OnPeerDeclined ==
    /\ socketConnected
    /\ callState' = "idle"
    /\ lastEvent' = Event("other", <<>>, 0)
    /\ UNCHANGED <<extVars, serverVars, sentVars, sockVars, incomingCallData, mediaVars, remoteVars,
                   analysisVars, refVars, asyncVars, messages>>

\* socket.on('newMessage')
OnNewMessage(peerId) ==
    /\ socketConnected
    /\ Len(messages) < MaxMessages
    /\ messages' = Append(messages, peerId)
    /\ lastEvent' = Event("other", <<>>, 0)
    /\ UNCHANGED <<extVars, serverVars, sentVars, sockVars, callVars, mediaVars, remoteVars,
                   analysisVars, refVars, asyncVars>>

\* handleSendMessage, from the chat panel of the in-call screen
handleSendMessage ==
    /\ callState = "in-call"
    /\ currentRoomNameRef # NoRoom
    /\ Len(messages) < MaxMessages
    /\ messages' = Append(messages, "me")
    /\ lastEvent' = Event("other", <<>>, 0)
    /\ UNCHANGED <<extVars, serverVars, sentVars, sockVars, callVars, mediaVars, remoteVars,
                   analysisVars, refVars, asyncVars>>

\* socket.on('call-started') -> startCallSession up to `await getMediaStream`:
\* currentRoomNameRef.current = roomName; unlockAudio creates the AudioContext
OnCallStarted(roomName) ==
    /\ socketConnected
    /\ Len(sessions) < MaxSessions
    /\ currentRoomNameRef' = roomName
    /\ audioContextRef' = "open"
    /\ sessions' = Append(sessions, "media")
    /\ lastEvent' = Event("other", <<>>, 0)
    /\ UNCHANGED <<extVars, serverVars, sentVars, sockVars, callVars, mediaVars, remoteVars,
                   speakingStates, analysisRefs, leaked, deviceRef, sendTransportRef,
                   recvTransportRef, closedTransports, consumeCalls, messages>>

\* startCallSession after `await getMediaStream`: setLocalStream(stream);
\* setupAudioAnalysis(stream, socketRef.current?.id || 'local'); emit getRouterRtpCapabilities
getMediaStreamDone(n) ==
    /\ n \in DOMAIN sessions
    /\ sessions[n] = "media"
    /\ localStream' = n
    /\ liveStreams' = liveStreams \cup {n}
    /\ analysisRefs' = setupAudioAnalysis(analysisRefs, TRUE, LocalId, audioContextRef)
    /\ sessions' = [sessions EXCEPT ![n] = "caps"]
    /\ lastEvent' = Event("other", <<>>, 0)
    /\ UNCHANGED <<extVars, serverVars, sentVars, sockVars, callVars, remoteVars, speakingStates,
                   leaked, audioContextRef, refVars, consumeCalls, messages>>

\* startCallSession, catch (error) { ...; cleanUp(); }
getMediaStreamFailed(n) ==
    /\ n \in DOMAIN sessions
    /\ sessions[n] = "media"
    /\ cleanUp(MountLocalStream)
    /\ sessions' = [sessions EXCEPT ![n] = "failed"]
    /\ lastEvent' = Event("getMediaStream-failed", <<>>, 0)
    /\ UNCHANGED <<extVars, serverVars, sentVars, sockVars>>

\* the getRouterRtpCapabilities callback up to `await device.load`
OnRouterRtpCapabilities(n) ==
    /\ socketConnected
    /\ n \in DOMAIN sessions
    /\ sessions[n] = "caps"
    /\ sessions' = [sessions EXCEPT ![n] = "load"]
    /\ lastEvent' = Event("other", <<>>, 0)
    /\ UNCHANGED <<extVars, serverVars, sentVars, sockVars, callVars, mediaVars, remoteVars,
                   analysisVars, refVars, consumeCalls, messages>>

\* ... after the await, with createWebRtcTransport { isSender: true } emitted in
\* the place of joinRoom
DeviceLoadedSkipsJoin(n) ==
    /\ n \in DOMAIN sessions
    /\ sessions[n] = "load"
    /\ deviceRef' = n
    /\ sessions' = [sessions EXCEPT ![n] = "send"]
    /\ lastEvent' = Event("other", <<>>, 0)
    /\ UNCHANGED <<extVars, serverVars, sentVars, sockVars, callVars, mediaVars, remoteVars,
                   analysisVars, currentRoomNameRef, sendTransportRef, recvTransportRef,
                   closedTransports, consumeCalls, messages>>

\* ... after the await: deviceRef.current = device; emit joinRoom
DeviceLoaded(n) ==
    /\ n \in DOMAIN sessions
    /\ sessions[n] = "load"
    /\ deviceRef' = n
    /\ sessions' = [sessions EXCEPT ![n] = "join"]
    /\ lastEvent' = Event("other", <<>>, 0)
    /\ UNCHANGED <<extVars, serverVars, sentVars, sockVars, callVars, mediaVars, remoteVars,
                   analysisVars, currentRoomNameRef, sendTransportRef, recvTransportRef,
                   closedTransports, consumeCalls, messages>>

\* the joinRoom callback: emit createWebRtcTransport { isSender: true }.  The
\* existingProducers array is only carried to the consume loop of the innermost
\* callback, where its value is drawn.
OnJoinRoomReply(n) ==
    /\ socketConnected
    /\ n \in DOMAIN sessions
    /\ sessions[n] = "join"
    /\ sessions' = [sessions EXCEPT ![n] = "send"]
    /\ lastEvent' = Event("other", <<>>, 0)
    /\ UNCHANGED <<extVars, serverVars, sentVars, sockVars, callVars, mediaVars, remoteVars,
                   analysisVars, refVars, consumeCalls, messages>>

\* the first createWebRtcTransport callback: sendTransportRef.current = sendTransport;
\* emit createWebRtcTransport { isSender: false }
OnSendTransport(n) ==
    /\ socketConnected
    /\ n \in DOMAIN sessions
    /\ sessions[n] = "send"
    /\ sendTransportRef' = 2 * n - 1
    /\ sessions' = [sessions EXCEPT ![n] = "recv"]
    /\ lastEvent' = Event("other", <<>>, 0)
    /\ UNCHANGED <<extVars, serverVars, sentVars, sockVars, callVars, mediaVars, remoteVars,
                   analysisVars, currentRoomNameRef, deviceRef, recvTransportRef,
                   closedTransports, consumeCalls, messages>>

\* the second createWebRtcTransport callback up to `await produceStream(stream)`:
\* recvTransportRef.current = recvTransport; setCallState('in-call');
\* setIncomingCallData(null)
OnRecvTransport(n) ==
    /\ socketConnected
    /\ n \in DOMAIN sessions
    /\ sessions[n] = "recv"
    /\ recvTransportRef' = 2 * n
    /\ callState' = "in-call"
    /\ incomingCallData' = NoCall
    /\ sessions' = [sessions EXCEPT ![n] = "produce"]
    /\ lastEvent' = Event("other", <<>>, 0)
    /\ UNCHANGED <<extVars, serverVars, sentVars, sockVars, mediaVars, remoteVars, analysisVars,
                   currentRoomNameRef, deviceRef, sendTransportRef, closedTransports,
                   consumeCalls, messages>>

\* a consume() call that ended without a consumer
NoConsumer == [producer |-> NoProducer, stage |-> "failed", transport |-> 0,
               resumeSent |-> FALSE]

\* consume(producerId, mediaType, peerId) up to the 'consume' reply, for every
\* producer of ps: nothing when deviceRef or recvTransportRef is null
RECURSIVE AskedFor(_)
AskedFor(ps) ==
    IF ps = {} THEN <<>>
    ELSE LET p == CHOOSE x \in ps : TRUE
         IN  <<[producer |-> p, stage |-> "asked", transport |-> 0, resumeSent |-> FALSE]>>
                 \o AskedFor(ps \ {p})
consume(ps) ==
    IF deviceRef = 0 \/ recvTransportRef = 0 THEN consumeCalls
    ELSE consumeCalls \o AskedFor(ps)

\* ... after `await produceStream(stream)`:
\* for (const producerInfo of existingProducers) consume(...)
produceStreamDone(n, existingProducers) ==
    /\ n \in DOMAIN sessions
    /\ sessions[n] = "produce"
    /\ Len(consume(existingProducers)) <= MaxConsumes
    /\ consumeCalls' = consume(existingProducers)
    /\ sessions' = [sessions EXCEPT ![n] = "done"]
    /\ lastEvent' = Event("other", <<>>, 0)
    /\ UNCHANGED <<extVars, serverVars, sentVars, sockVars, callVars, mediaVars, remoteVars,
                   analysisVars, refVars, messages>>

\* sendTransport.produce rejects inside produceStream: the callback ends there
produceStreamFailed(n) ==
    /\ n \in DOMAIN sessions
    /\ sessions[n] = "produce"
    /\ sessions' = [sessions EXCEPT ![n] = "failed"]
    /\ lastEvent' = Event("other", <<>>, 0)
    /\ UNCHANGED <<extVars, serverVars, sentVars, sockVars, callVars, mediaVars, remoteVars,
                   analysisVars, refVars, consumeCalls, messages>>

\* socket.on('new-producer'): if (peerId === socket.id) return; consume(...)
OnNewProducer(producerId) ==
    /\ socketConnected
    /\ Len(consume({producerId})) <= MaxConsumes
    /\ consumeCalls' = consume({producerId})
    /\ lastEvent' = Event("new-producer", <<producerId>>, 0)
    /\ UNCHANGED <<extVars, serverVars, sentVars, sockVars, callVars, mediaVars, remoteVars,
                   analysisVars, refVars, sessions, messages>>

\* the 'consume' callback up to `await recvTransportRef.current!.consume(params)`:
\* an error reply returns; a null or closed recv transport throws
OnConsumeReply(k, ok) ==
    /\ socketConnected
    /\ k \in DOMAIN consumeCalls
    /\ consumeCalls[k].stage = "asked"
    /\ consumeCalls' = [consumeCalls EXCEPT ![k] =
           IF ~ok \/ recvTransportRef = 0 \/ recvTransportRef \in closedTransports
           THEN NoConsumer
           ELSE [@ EXCEPT !.stage = "binding", !.transport = recvTransportRef]]
    /\ lastEvent' = Event("other", <<>>, 0)
    /\ UNCHANGED <<extVars, serverVars, sentVars, sockVars, callVars, mediaVars, remoteVars,
                   analysisVars, refVars, sessions, messages>>

\* ... after the await: emit resume; setConsumers(prev => new Map(prev).set(producerId,
\* consumer)); setRemotePeers(...) with setupAudioAnalysis(newStream, peerId) for audio
ConsumeBound(k) ==
    LET p == consumeCalls[k].producer
        newPeers == AttachTrack(remotePeers, k)
    IN  /\ k \in DOMAIN consumeCalls
        /\ consumeCalls[k].stage = "binding"
        /\ consumeCalls' = [consumeCalls EXCEPT ![k].stage = "open", ![k].resumeSent = TRUE]
        /\ consumers' = MapPut(consumers, p, k)
        /\ remotePeers' = newPeers
        /\ analysisRefs' = setupAudioAnalysis(analysisRefs,
               MediaTypeOf(p) = "audio" /\ TracksOfKind(newPeers[OwnerOf(p)].stream, "audio") # <<>>,
               OwnerOf(p), audioContextRef)
        /\ lastEvent' = Event("consume", <<p, k>>,
               IF OwnerOf(p) \in DOMAIN remotePeers
               THEN Len(TracksOfKind(remotePeers[OwnerOf(p)].stream, TrackKind(k))) ELSE 0)
        /\ UNCHANGED <<extVars, serverVars, sentVars, sockVars, callVars, mediaVars, speakingStates,
                       leaked, audioContextRef, refVars, sessions, messages>>

\* `await recvTransportRef.current!.consume(params)` rejects
ConsumeBindFailed(k) ==
    /\ k \in DOMAIN consumeCalls
    /\ consumeCalls[k].stage = "binding"
    /\ consumeCalls' = [consumeCalls EXCEPT ![k] = NoConsumer]
    /\ lastEvent' = Event("other", <<>>, 0)
    /\ UNCHANGED <<extVars, serverVars, sentVars, sockVars, callVars, mediaVars, remoteVars,
                   analysisVars, refVars, sessions, messages>>

\* handleProducerClosed(producerId); closureConsumers is the `consumers` of the render
\* the caller closed over
handleProducerClosed(producerId, closureConsumers) ==
    LET stops == StoppedByClose(remotePeers, producerId) IN
    /\ IF producerId \in DOMAIN closureConsumers
       THEN /\ consumeCalls' = [consumeCalls EXCEPT
                                   ![closureConsumers[producerId]].stage = "closed"]
            /\ consumers' = MapDel(closureConsumers, producerId)
       ELSE UNCHANGED <<consumeCalls, consumers>>
    /\ remotePeers' = RemoveProducer(remotePeers, producerId)
    /\ analysisRefs' = StoppedRefs(analysisRefs, stops)
    /\ leaked' = StoppedLeaked(analysisRefs, stops)
    /\ speakingStates' = StoppedSpeaking(speakingStates, stops)

\* socket.on('producer-closed'), registered at mount
OnProducerClosed(producerId) ==
    /\ socketConnected
    /\ handleProducerClosed(producerId, MountConsumers)
    /\ lastEvent' = Event("producer-closed", <<producerId>>,
           IF PeersToUpdate(remotePeers, producerId) = {} THEN 0
           ELSE Len(remotePeers[OwnerOf(producerId)].stream))
    /\ UNCHANGED <<extVars, serverVars, sentVars, sockVars, callVars, mediaVars, audioContextRef,
                   refVars, sessions, messages>>

\* checkVolume, one animation frame of a sampling loop for id: the loop of the
\* analysisRefs entry (own) or a loop that outlived its entry, whose cloned track
\* is stopped (average 0, isSpeaking false)
checkVolume(id, isSpeaking, own) ==
    /\ IF own THEN id \in DOMAIN analysisRefs ELSE id \in leaked /\ ~isSpeaking
    /\ analysisRefs' = IF own THEN [analysisRefs EXCEPT ![id] = "running"] ELSE analysisRefs
    /\ speakingStates' = MapPut(speakingStates, id, isSpeaking)
    /\ lastEvent' = Event("other", <<>>, 0)
    /\ UNCHANGED <<extVars, serverVars, sentVars, sockVars, callVars, mediaVars, remoteVars,
                   leaked, audioContextRef, refVars, asyncVars, messages>>

\* leaveCall, from the end-call button of the in-call screen: emit leaveRoom; cleanUp()
leaveCall ==
    /\ callState = "in-call"
    /\ cleanUp(localStream)
    /\ lastEvent' = Event("leaveCall", <<>>, 0)
    /\ UNCHANGED <<extVars, serverVars, sentVars, sockVars, sessions>>

\* socket.on('disconnect'), registered at mount: cleanUp()
OnDisconnect ==
    /\ socketConnected
    /\ socketConnected' = FALSE
    /\ cleanUp(MountLocalStream)
    /\ lastEvent' = Event("disconnect", <<>>, 0)
    /\ UNCHANGED <<extVars, serverVars, sentVars, myId, sessions>>

\* the client in its first call, with the handlers that read or write consumers
\* and remotePeers
RemoteNext ==
    \/ OnConnect
    \/ \E roomName \in ClientRooms : sessions = <<>> /\ OnCallStarted(roomName)
    \/ \E n \in SessionIds : getMediaStreamDone(n)
    \/ \E n \in SessionIds : getMediaStreamFailed(n)
    \/ \E n \in SessionIds : OnRouterRtpCapabilities(n)
    \/ \E n \in SessionIds : DeviceLoaded(n)
    \/ \E n \in SessionIds : OnJoinRoomReply(n)
    \/ \E n \in SessionIds : OnSendTransport(n)
    \/ \E n \in SessionIds : OnRecvTransport(n)
    \/ \E n \in SessionIds, existingProducers \in SUBSET RemoteProducers :
           produceStreamDone(n, existingProducers)
    \/ \E n \in SessionIds : produceStreamFailed(n)
    \/ \E producerId \in RemoteProducers : OnNewProducer(producerId)
    \/ \E k \in ConsumeIds, ok \in BOOLEAN : OnConsumeReply(k, ok)
    \/ \E k \in ConsumeIds : ConsumeBound(k)
    \/ \E k \in ConsumeIds : ConsumeBindFailed(k)
    \/ \E producerId \in RemoteProducers : OnProducerClosed(producerId)
    \/ leaveCall
    \/ OnDisconnect

SpecRemote == Init /\ [][RemoteNext]_vars

\* the client in its first call with every handler, the remote side publishing
\* one audio producer
HangupProducers == {"p1"}
HangupNext ==
    \/ OnConnect
    \/ \E from \in Callers : OnIncomingCall(from)
    \/ handleCall
    \/ handleDeclineCall
    \/ OnPeerUnavailable
    \/ OnPeerDeclined
    \/ \E peerId \in {OwnerOf(p) : p \in HangupProducers} : OnNewMessage(peerId)
    \/ handleSendMessage
    \/ \E roomName \in ClientRooms : sessions = <<>> /\ OnCallStarted(roomName)
    \/ \E n \in SessionIds : getMediaStreamDone(n)
    \/ \E n \in SessionIds : getMediaStreamFailed(n)
    \/ \E n \in SessionIds : OnRouterRtpCapabilities(n)
    \/ \E n \in SessionIds : DeviceLoaded(n)
    \/ \E n \in SessionIds : OnJoinRoomReply(n)
    \/ \E n \in SessionIds : OnSendTransport(n)
    \/ \E n \in SessionIds : OnRecvTransport(n)
    \/ \E n \in SessionIds, existingProducers \in SUBSET HangupProducers :
           produceStreamDone(n, existingProducers)
    \/ \E n \in SessionIds : produceStreamFailed(n)
    \/ \E producerId \in HangupProducers : OnNewProducer(producerId)
    \/ \E k \in ConsumeIds, ok \in BOOLEAN : OnConsumeReply(k, ok)
    \/ \E k \in ConsumeIds : ConsumeBound(k)
    \/ \E k \in ConsumeIds : ConsumeBindFailed(k)
    \/ \E producerId \in HangupProducers : OnProducerClosed(producerId)
    \/ \E id \in {"me", "local"} \cup {OwnerOf(p) : p \in HangupProducers},
          isSpeaking \in BOOLEAN, own \in BOOLEAN : checkVolume(id, isSpeaking, own)
    \/ leaveCall
    \/ OnDisconnect

SpecHangup == Init /\ [][HangupNext]_vars

Next == ServerNext
Spec == Init /\ [][Next]_vars

\* ------------------------------------------------------------ server claims
\* C1: a room is present in `rooms` if and only if its peer map is non-empty;
\* no room with zero peers persists in the registry.
C1_RoomIffPeers == \A r \in DOMAIN rooms : DOMAIN rooms[r].peers # {}

\* C2: the reply to joinRoom lists exactly the producers that are live (not
\* closed) at that moment and owned by peers of the room other than the joiner.
C2_SnapshotLiveOthers ==
    [][\A s \in Sockets :
          joinSeq'[s] # joinSeq[s] =>
            LET r == currentRoomName'[s] IN
            joinReply'[s][r] =
                {pb \in ProducerIds \X ((DOMAIN rooms[r].peers) \ {s}) :
                    /\ pb[1] \in rooms[r].peers[pb[2]].producers
                    /\ producerObj[pb[1]].state = "open"}]_vars

\* C3: a socket B that has joined room r and is still in it has been told about
\* every producer P registered by another peer A of r exactly once: either in
\* B's joinRoom snapshot of r or by a new-producer event delivered after that
\* snapshot, never neither, never both, never by an event before the snapshot.
C3_ToldExactlyOnce ==
    \A r \in DOMAIN rooms : \A a \in DOMAIN rooms[r].peers, b \in DOMAIN rooms[r].peers :
        (a # b /\ JoinsOf(b, r) # {} /\ r \in sioRooms[b]) =>
            \A p \in rooms[r].peers[a].producers :
                LET inSnapshot == <<p, a>> \in joinReply[b][r]
                    byEvent == \E e \in heard[b] : e[1] = p /\ e[2] >= LastJoin(b, r)
                    early == \E e \in heard[b] : e[1] = p /\ e[2] < FirstJoin(b, r)
                IN  (inSnapshot # byEvent) /\ ~early

\* C4: when produce succeeds for peer A, new-producer is delivered to every
\* other peer that has a PeerSession in A's room, and never to A itself.
C4_NewProducerToOthers ==
    [][\A p \in DOMAIN producerObj :
          (producerObj[p].state = "pending" /\ producerObj'[p].state = "open") =>
            LET a == producerObj[p].socket IN
            /\ \A e \in heard'[a] : e[1] # p
            /\ \A r \in RoomsOfPeer(a, producerObj[p].gen) :
                 \A b \in (DOMAIN rooms[r].peers) \ {a} : \E e \in heard'[b] : e[1] = p]_vars

\* C5: when a producer of peer A closes, every other peer of the room that has
\* not left it has received exactly one producer-closed event for that producer
\* id, and no socket ever receives a second one.
C5_ExactlyOneProducerClosed ==
    [][/\ \A b \in Sockets, p \in ProducerIds : notices'[b][p] <= 1
       /\ \A p \in DOMAIN producerObj :
            (producerObj[p].state = "open" /\ producerObj'[p].state = "closed") =>
              LET a == producerObj[p].socket IN
              \A r \in DOMAIN rooms :
                (a \in DOMAIN rooms[r].peers /\ p \in rooms[r].peers[a].producers) =>
                  \A b \in (DOMAIN rooms[r].peers) \ {a} :
                      r \in sioRooms[b] => notices'[b][p] = 1]_vars

\* C6: after a socket leaves a room (socket.leave in leaveRoom, or disconnect),
\* every producer and every transport of its PeerSession is closed and the
\* PeerSession is no longer in the room's peer map.
C6_LeaveReleasesPeer ==
    [][\A s \in Sockets : \A r \in sioRooms[s] \ sioRooms'[s] :
          (r \in DOMAIN rooms /\ s \in DOMAIN rooms[r].peers) =>
            /\ \A p \in rooms[r].peers[s].producers : producerObj'[p].state = "closed"
            /\ \A t \in SeqSet(rooms[r].peers[s].transports) : transportObj'[t].state = "closed"
            /\ r \in DOMAIN rooms' => s \notin DOMAIN rooms'[r].peers]_vars

\* ------------------------------------------------------------ media acquisition
\* getMediaStream, the for loop over videoConstraintsPresets from preset i on, then
\* the audio-only fallback; lastError is the error of the last failed video request
RECURSIVE TryPresets(_, _, _)
TryPresets(dev, i, lastError) ==
    IF i <= Len(VideoPresets) /\ dev[VideoPresets[i]] = "ok"
    THEN Returned("getMediaStream", {"audio", "video"}, TRUE)
    ELSE IF i <= Len(VideoPresets) /\
            dev[VideoPresets[i]] \in {"OverconstrainedError", "NotFoundError", "NotReadableError"}
    THEN TryPresets(dev, i + 1, dev[VideoPresets[i]])
    ELSE LET err == IF i <= Len(VideoPresets) THEN dev[VideoPresets[i]] ELSE lastError IN
         IF dev["audio"] = "ok" THEN Returned("getMediaStream", {"audio"}, FALSE)
         ELSE Threw("getMediaStream", err)

\* the for loop with the break taken out of the catch: every preset is requested
\* until one succeeds
RECURSIVE PresetsTriedNoBreak(_, _)
PresetsTriedNoBreak(dev, i) ==
    IF i > Len(VideoPresets) THEN <<>>
    ELSE IF dev[VideoPresets[i]] = "ok" THEN <<VideoPresets[i]>>
    ELSE <<VideoPresets[i]>> \o PresetsTriedNoBreak(dev, i + 1)

\* getMediaStream, the for loop from preset i on: the presets it passes to
\* getUserMedia, in the order of the requests (return on success, break on an
\* error other than the three it retries on)
RECURSIVE PresetsTried(_, _)
PresetsTried(dev, i) ==
    IF i > Len(VideoPresets) THEN <<>>
    ELSE IF dev[VideoPresets[i]] = "ok" THEN <<VideoPresets[i]>>
    ELSE IF dev[VideoPresets[i]] \in {"OverconstrainedError", "NotFoundError", "NotReadableError"}
    THEN <<VideoPresets[i]>> \o PresetsTried(dev, i + 1)
    ELSE <<VideoPresets[i]>>

\* getMediaStream(prefersVideo) on device dev
getMediaStream(dev, prefersVideo) ==
    IF ~prefersVideo
    THEN IF dev["audio"] = "ok" THEN Returned("getMediaStream", {"audio"}, FALSE)
         ELSE Threw("getMediaStream", dev["audio"])
    ELSE TryPresets(dev, 1, "none")

\* joinRoom(callType) of part_000 up to setLocalStream, on device dev
joinRoomMedia(dev, videoEnabled) ==
    IF ~videoEnabled
    THEN IF dev["audio"] = "ok" THEN Returned("joinRoom", {"audio"}, FALSE)
         ELSE Threw("joinRoom", dev["audio"])
    ELSE IF dev["hd"] = "ok" THEN Returned("joinRoom", {"audio", "video"}, TRUE)
    ELSE IF dev["hd"] \in {"NotReadableError", "NotFoundError", "OverconstrainedError"}
    THEN IF dev["audio"] = "ok" THEN Returned("joinRoom", {"audio"}, FALSE)
         ELSE Threw("joinRoom", dev["audio"])
    ELSE Threw("joinRoom", dev["hd"])

\* startCallSession: await getMediaStream(callType === 'video')
AcquireMedia(prefersVideo) ==
    /\ acquired' = [video |-> prefersVideo, result |-> getMediaStream(gum, prefersVideo),
                    tried |-> IF prefersVideo THEN PresetsTried(gum, 1) ELSE <<>>]
    /\ UNCHANGED <<gum, signalVars, replyVars, bindVars, contactVars, relayVars, serverVars, sentVars, clientVars>>

\* joinRoom(callType) of part_000: the getUserMedia calls
AcquireMediaInRoom(videoEnabled) ==
    /\ acquired' = [video |-> videoEnabled, result |-> joinRoomMedia(gum, videoEnabled),
                    tried |-> IF videoEnabled THEN <<"hd">> ELSE <<>>]
    /\ UNCHANGED <<gum, signalVars, replyVars, bindVars, contactVars, relayVars, serverVars, sentVars, clientVars>>

\* media acquisition on every device
InitMedia ==
    /\ InitApp
    /\ InitSignal
    /\ InitReply
    /\ InitBind
    /\ InitContacts
    /\ InitRelay
    /\ gum \in [Requests -> Outcomes]
    /\ acquired = NotAcquired
MediaNext ==
    \/ \E prefersVideo \in BOOLEAN : AcquireMedia(prefersVideo)
    \/ \E videoEnabled \in BOOLEAN : AcquireMediaInRoom(videoEnabled)
SpecMedia == InitMedia /\ [][MediaNext]_vars

\* ------------------------------------------------------------ call signalling
\* server.js and the App of src/index.tsx on each connection, joined by the events
\* they emit to each other.  Room setup is reduced to its start (startCallSession
\* called), its reaching setCallState('in-call') and its failing in getMediaStream.
Msg(name, to) == [name |-> name, to |-> to]
Evt(name, from, roomName) == [name |-> name, from |-> from, roomName |-> roomName]
Did(name, at) == [name |-> name, at |-> at]

\* the server state the signalling handlers leave alone
mediaRegistryVars == <<currentRoomName, sioRooms, routerClosed, transportObj, producerObj,
                       consumerObj, joinSeq>>

\* socket.emit / targetSocket.emit: the event reaches a connected socket only
Emit(q, t, e) == IF Connected(t) THEN [q EXCEPT ![t] = Append(@, e)] ELSE q
\* events emitted and not yet handled, over all connections, and call-accepted
\* handlers waiting in createRoom
InFlight == Len(toServer["a"]) + Len(toServer["b"]) + Len(toClient["a"]) + Len(toClient["b"])
            + SumCreating(RoomNames)
\* a user acts only when fewer than MaxInFlight events wait to be handled
Settled == InFlight < MaxInFlight
NextMsg(s, name) == Connected(s) /\ toServer[s] # <<>> /\ Head(toServer[s]).name = name
NextEvt(s, name) == Connected(s) /\ toClient[s] # <<>> /\ Head(toClient[s]).name = name

\* the incoming-call modal is on screen
ModalShown(s) == ui[s].callState = "receiving" /\ ui[s].incomingCallData # NoCall

\* handleCall on connection s with peerIdToCall = t
handleCallOn(s, t) ==
    /\ Connected(s)
    /\ t # s
    /\ ui[s].callState = "idle"
    /\ Settled
    /\ ui' = [ui EXCEPT ![s].callState = "calling"]
    /\ toServer' = [toServer EXCEPT ![s] = Append(@, Msg("call-peer", t))]
    /\ did' = Did("other", NoCall)
    /\ UNCHANGED <<toClient, mediaProbeVars, replyVars, bindVars, contactVars, relayVars, serverVars, sentVars, clientVars>>

\* handleAcceptCall, from the incoming-call modal: emits call-accepted, sets nothing
handleAcceptCall(s) ==
    /\ Connected(s)
    /\ ModalShown(s)
    /\ Settled
    /\ toServer' = [toServer EXCEPT
                       ![s] = Append(@, Msg("call-accepted", ui[s].incomingCallData))]
    /\ did' = Did("other", NoCall)
    /\ UNCHANGED <<ui, toClient, mediaProbeVars, replyVars, bindVars, contactVars, relayVars, serverVars, sentVars, clientVars>>

\* handleDeclineCall, from the incoming-call modal
handleDeclineCallOn(s) ==
    /\ Connected(s)
    /\ ModalShown(s)
    /\ Settled
    /\ toServer' = [toServer EXCEPT
                       ![s] = Append(@, Msg("call-declined", ui[s].incomingCallData))]
    /\ ui' = [ui EXCEPT ![s].callState = "idle", ![s].incomingCallData = NoCall]
    /\ did' = Did("handleDeclineCall", s)
    /\ UNCHANGED <<toClient, mediaProbeVars, replyVars, bindVars, contactVars, relayVars, serverVars, sentVars, clientVars>>

\* server, socket.on('call-peer')
CallPeer(s) ==
    LET t == Head(toServer[s]).to
        found == t \in Sockets /\ Connected(t)
    IN  /\ NextMsg(s, "call-peer")
        /\ toServer' = [toServer EXCEPT ![s] = Tail(@)]
        /\ toClient' = IF found THEN Emit(toClient, t, Evt("incoming-call", s, NoRoom))
                       ELSE Emit(toClient, s, Evt("peer-unavailable", NoCall, NoRoom))
        /\ did' = Did("other", NoCall)
        /\ UNCHANGED <<ui, mediaProbeVars, replyVars, bindVars, contactVars, relayVars, serverVars, sentVars, clientVars>>

\* server, socket.on('call-accepted') up to the end of `await createRoom(roomName)`
\* when the caller is gone or the room exists, up to `await worker.createRouter`
\* otherwise
CallAcceptedOn(s) ==
    LET to == Head(toServer[s]).to
        roomName == RoomName(to, s)
        callStarted == Evt("call-started", NoCall, roomName)
    IN  /\ NextMsg(s, "call-accepted")
        /\ toServer' = [toServer EXCEPT ![s] = Tail(@)]
        /\ did' = Did("other", NoCall)
        /\ IF ~(to \in Sockets /\ Connected(to))
           THEN UNCHANGED <<toClient, creating>>
           ELSE IF roomName \in DOMAIN rooms
           THEN /\ toClient' = Emit(Emit(toClient, to, callStarted), s, callStarted)
                /\ UNCHANGED creating
           ELSE /\ nextRouter + SumCreating(RoomNames) < MaxRouters
                /\ creating' = [creating EXCEPT ![roomName] = @ + 1]
                /\ UNCHANGED toClient
        /\ UNCHANGED <<ui, sockState, rooms, nextRouter, mediaRegistryVars,
                       mediaProbeVars, replyVars, bindVars, contactVars, relayVars, sentVars, clientVars>>

\* ... createRoom after the await, then callerSocket.emit('call-started') and
\* socket.emit('call-started')
CallStarted(roomName) ==
    LET callStarted == Evt("call-started", NoCall, roomName) IN
    /\ creating[roomName] > 0
    /\ creating' = [creating EXCEPT ![roomName] = @ - 1]
    /\ nextRouter' = nextRouter + 1
    /\ rooms' = MapPut(rooms, roomName, [router |-> nextRouter + 1, peers |-> EmptyMap])
    /\ toClient' = Emit(Emit(toClient, roomName[1], callStarted), roomName[2], callStarted)
    /\ did' = Did("other", NoCall)
    /\ UNCHANGED <<ui, toServer, sockState, mediaRegistryVars, mediaProbeVars, replyVars, bindVars, contactVars, relayVars, sentVars,
                   clientVars>>

\* the call-declined handler without callerSocket.emit('peer-declined')
CallDeclinedDropped(s) ==
    /\ NextMsg(s, "call-declined")
    /\ toServer' = [toServer EXCEPT ![s] = Tail(@)]
    /\ did' = Did("other", NoCall)
    /\ UNCHANGED <<ui, toClient, mediaProbeVars, replyVars, bindVars, contactVars, relayVars, serverVars, sentVars, clientVars>>

\* server, socket.on('call-declined')
CallDeclined(s) ==
    LET to == Head(toServer[s]).to IN
    /\ NextMsg(s, "call-declined")
    /\ toServer' = [toServer EXCEPT ![s] = Tail(@)]
    /\ toClient' = IF to \in Sockets THEN Emit(toClient, to, Evt("peer-declined", NoCall, NoRoom))
                   ELSE toClient
    /\ did' = Did("other", NoCall)
    /\ UNCHANGED <<ui, mediaProbeVars, replyVars, bindVars, contactVars, relayVars, serverVars, sentVars, clientVars>>

\* client, socket.on('incoming-call'): `callState` is the value of the first render
IncomingCallOn(s) ==
    /\ NextEvt(s, "incoming-call")
    /\ toClient' = [toClient EXCEPT ![s] = Tail(@)]
    /\ ui' = IF MountCallState # "idle" THEN ui
             ELSE [ui EXCEPT ![s].incomingCallData = Head(toClient[s]).from,
                             ![s].callState = "receiving"]
    /\ did' = Did("incoming-call", s)
    /\ UNCHANGED <<toServer, mediaProbeVars, replyVars, bindVars, contactVars, relayVars, serverVars, sentVars, clientVars>>

\* the peer-unavailable handler without setCallState('idle')
PeerUnavailableIgnored(s) ==
    /\ NextEvt(s, "peer-unavailable")
    /\ toClient' = [toClient EXCEPT ![s] = Tail(@)]
    /\ did' = Did("peer-unavailable", s)
    /\ UNCHANGED <<ui, toServer, mediaProbeVars, replyVars, bindVars, contactVars, relayVars, serverVars, sentVars, clientVars>>

\* client, socket.on('peer-unavailable')
PeerUnavailableOn(s) ==
    /\ NextEvt(s, "peer-unavailable")
    /\ toClient' = [toClient EXCEPT ![s] = Tail(@)]
    /\ ui' = [ui EXCEPT ![s].callState = "idle"]
    /\ did' = Did("peer-unavailable", s)
    /\ UNCHANGED <<toServer, mediaProbeVars, replyVars, bindVars, contactVars, relayVars, serverVars, sentVars, clientVars>>

\* client, socket.on('peer-declined')
PeerDeclinedOn(s) ==
    /\ NextEvt(s, "peer-declined")
    /\ toClient' = [toClient EXCEPT ![s] = Tail(@)]
    /\ ui' = [ui EXCEPT ![s].callState = "idle"]
    /\ did' = Did("peer-declined", s)
    /\ UNCHANGED <<toServer, mediaProbeVars, replyVars, bindVars, contactVars, relayVars, serverVars, sentVars, clientVars>>

\* client, socket.on('call-started'): startCallSession(roomName, callType) begins
CallStartedOn(s) ==
    /\ NextEvt(s, "call-started")
    /\ ui[s].setups < MaxSessions
    /\ toClient' = [toClient EXCEPT ![s] = Tail(@)]
    /\ ui' = [ui EXCEPT ![s].setups = @ + 1]
    /\ did' = Did("other", NoCall)
    /\ UNCHANGED <<toServer, mediaProbeVars, replyVars, bindVars, contactVars, relayVars, serverVars, sentVars, clientVars>>

\* client, startCallSession reaches setCallState('in-call'); setIncomingCallData(null)
InCallOn(s) ==
    /\ Connected(s)
    /\ ui[s].setups > 0
    /\ ui' = [ui EXCEPT ![s].setups = @ - 1, ![s].callState = "in-call",
                        ![s].incomingCallData = NoCall]
    /\ did' = Did("other", NoCall)
    /\ UNCHANGED <<toServer, toClient, mediaProbeVars, replyVars, bindVars, contactVars, relayVars, serverVars, sentVars, clientVars>>

\* client, startCallSession: getMediaStream throws, catch { cleanUp() }
SetupFailedOn(s) ==
    /\ Connected(s)
    /\ ui[s].setups > 0
    /\ ui' = [ui EXCEPT ![s].setups = @ - 1, ![s].callState = "idle",
                        ![s].incomingCallData = NoCall]
    /\ did' = Did("other", NoCall)
    /\ UNCHANGED <<toServer, toClient, mediaProbeVars, replyVars, bindVars, contactVars, relayVars, serverVars, sentVars, clientVars>>

\* the connection of s drops before s joined a room: what s emitted and what was
\* emitted to s is lost, the server's 'disconnect' handler returns at once, the
\* client's runs cleanUp(); setup steps already waiting for a reply get none
ConnectionLost(s) ==
    /\ Connected(s)
    /\ currentRoomName[s] = NoRoom
    /\ sockState' = [sockState EXCEPT ![s] = "gone"]
    /\ toServer' = [toServer EXCEPT ![s] = <<>>]
    /\ toClient' = [toClient EXCEPT ![s] = <<>>]
    /\ ui' = [ui EXCEPT ![s].callState = "idle", ![s].incomingCallData = NoCall,
                        ![s].setups = 0]
    /\ did' = Did("other", NoCall)
    /\ UNCHANGED <<rooms, nextRouter, creating, mediaRegistryVars, mediaProbeVars, replyVars, bindVars, contactVars, relayVars, sentVars,
                   clientVars>>

\* what the users do
SignalClicks ==
    \/ \E s \in Sockets, t \in CallTargets : handleCallOn(s, t)
    \/ \E s \in Sockets : handleAcceptCall(s)
    \/ \E s \in Sockets : handleDeclineCallOn(s)
\* what the server and the clients do on their own when an event arrives
SignalHandlers ==
    \/ \E s \in Sockets : CallPeer(s)
    \/ \E s \in Sockets : CallAcceptedOn(s)
    \/ \E roomName \in RoomNames : CallStarted(roomName)
    \/ \E s \in Sockets : CallDeclined(s)
    \/ \E s \in Sockets : IncomingCallOn(s)
    \/ \E s \in Sockets : PeerUnavailableOn(s)
    \/ \E s \in Sockets : PeerDeclinedOn(s)
    \/ \E s \in Sockets : CallStartedOn(s)
\* the network and the media devices
SignalEnvironment ==
    \/ \E s \in Sockets : Connection(s)
    \/ \E s \in Sockets : ConnectionLost(s)
    \/ \E s \in Sockets : InCallOn(s)
    \/ \E s \in Sockets : SetupFailedOn(s)
SignalNext == SignalClicks \/ SignalHandlers \/ SignalEnvironment
SpecSignal == Init /\ [][SignalNext]_vars
\* every event that was emitted is handled; nobody has to click, connect or drop
SpecSignalFair == Init /\ [][SignalNext]_vars /\ WF_vars(SignalHandlers)

\* ------------------------------------------------------------ client claims
\* C7: once producer-closed for producer P has been handled, the consumer for P
\* is closed, the consumers map has no entry for P and no remote peer stream
\* holds a track derived from P.
C7_ProducerClosedReleases ==
    lastEvent.name = "producer-closed" =>
        LET P == lastEvent.arg[1] IN
        /\ P \notin DOMAIN consumers
        /\ \A k \in DOMAIN consumeCalls :
               consumeCalls[k].producer = P => consumeCalls[k].stage # "open"
        /\ \A id \in DOMAIN remotePeers : \A i \in 1..Len(remotePeers[id].stream) :
               consumeCalls[remotePeers[id].stream[i]].producer # P

C9_NoEmptyStream ==
    [][/\ \A id \in DOMAIN remotePeers' : remotePeers'[id].stream # <<>>
       /\ lastEvent'.name = "producer-closed" =>
              \A id \in PeersToUpdate(remotePeers, lastEvent'.arg[1]) :
                  LET P == lastEvent'.arg[1]
                      old == remotePeers[id]
                      isVideo == old.videoProducerId = P
                      others == TracksOfKind(old.stream, IF isVideo THEN "audio" ELSE "video")
                  IN  IF others = <<>> THEN id \notin DOMAIN remotePeers'
                      ELSE /\ id \in DOMAIN remotePeers'
                           /\ remotePeers'[id].stream = others
                           /\ remotePeers'[id].videoProducerId =
                                  IF isVideo THEN NoProducer ELSE old.videoProducerId
                           /\ remotePeers'[id].audioProducerId =
                                  IF isVideo THEN old.audioProducerId ELSE NoProducer]_vars
\* producer-closed has removed one of the two tracks of a peer
C9_KeptOtherTrack ==
    /\ lastEvent.name = "producer-closed"
    /\ lastEvent.had = 2
    /\ OwnerOf(lastEvent.arg[1]) \in DOMAIN remotePeers
    /\ Len(remotePeers[OwnerOf(lastEvent.arg[1])].stream) = 1

\* what a hang-up resets and releases
AppState == <<callVars, mediaVars, remoteVars, analysisVars, refVars, consumeCalls, messages>>

\* C10: every hang-up (leaveCall, or cleanUp from the disconnect event or from
\* the setup error handler) ends with callState idle, no local stream, empty
\* consumers, remotePeers, speakingStates and messages, null device, transports
\* and room name; a hang-up that directly follows a hang-up changes nothing.
C10_HangupIdempotent ==
    [][lastEvent'.name \in Hangups =>
          /\ callState' = "idle"
          /\ localStream' = 0
          /\ consumers' = EmptyMap
          /\ remotePeers' = EmptyMap
          /\ speakingStates' = EmptyMap
          /\ messages' = <<>>
          /\ deviceRef' = 0
          /\ sendTransportRef' = 0
          /\ recvTransportRef' = 0
          /\ currentRoomNameRef' = NoRoom
          /\ lastEvent.name \in Hangups => AppState' = AppState]_vars
\* a second hang-up in a row, after a call that had its transports
C10_HungUpTwice ==
    /\ lastEvent.name \in Hangups
    /\ lastEvent.afterHangup
    /\ closedTransports # {}

\* ------------------------------------------------------------ media claims
\* camera access denied, microphone available: every request that includes video
\* rejects with NotAllowedError, the audio-only request resolves
CameraDenied ==
    /\ \A q \in Requests \ {"audio"} : gum[q] = "NotAllowedError"
    /\ gum["audio"] = "ok"

\* C11: a media acquisition with video requested, on a device where every request
\* with video is denied and the audio-only request succeeds, returns
\* videoEnabled = false with a live audio stream instead of failing.
C11_AudioFallback ==
    (CameraDenied /\ acquired.video) =>
        /\ acquired.result.ok
        /\ ~acquired.result.videoEnabled
        /\ acquired.result.tracks = {"audio"}

\* ------------------------------------------------------------ signalling claims
\* the step in which the server handles the event `name` that s emitted
ServerHandles(s, name) ==
    NextMsg(s, name) /\ toServer'[s] = Tail(toServer[s]) /\ sockState' = sockState
\* the step in which the client on connection s handles the event `name`
ClientHandles(s, name) ==
    NextEvt(s, name) /\ toClient'[s] = Tail(toClient[s]) /\ sockState' = sockState
Offline(t) == t \notin Sockets \/ ~Connected(t)

\* C12: a call to an id that is not connected is answered with peer-unavailable
\* to the caller only and creates no room; handling peer-unavailable takes the
\* caller to idle without starting startCallSession.
C12_PeerUnavailable ==
    [][\A s \in Sockets :
        /\ (ServerHandles(s, "call-peer") /\ Offline(Head(toServer[s]).to)) =>
              /\ toClient' = [toClient EXCEPT
                     ![s] = Append(@, Evt("peer-unavailable", NoCall, NoRoom))]
              /\ rooms' = rooms
              /\ creating' = creating
        /\ ClientHandles(s, "peer-unavailable") =>
              /\ ui'[s].callState = "idle"
              /\ ui'[s].setups = ui[s].setups]_vars
\* a caller is back in idle after peer-unavailable, no room and no setup anywhere
C12_BackToIdle ==
    /\ did.name = "peer-unavailable"
    /\ ui[did.at].callState = "idle"
    /\ \A s \in Sockets : ui[s].setups = 0
    /\ rooms = EmptyMap

\* C13: an incoming-call that reaches a client whose callState is not idle is
\* answered with a decline for that offer.
C13_AutoDecline ==
    [][\A s \in Sockets :
        (ClientHandles(s, "incoming-call") /\ ui[s].callState # "idle") =>
            toServer'[s] = Append(toServer[s], Msg("call-declined", Head(toClient[s]).from))]_vars

\* C14: an incoming-call received while callState is calling, receiving or
\* in-call leaves callState and incomingCallData unchanged.
C14_OneCallPending ==
    [][\A s \in Sockets :
        (ClientHandles(s, "incoming-call") /\ ui[s].callState # "idle") =>
            /\ ui'[s].callState = ui[s].callState
            /\ ui'[s].incomingCallData = ui[s].incomingCallData]_vars

\* C16: declining takes the callee to idle with no incomingCallData; the server
\* relays the decline to the caller if it is connected, to nobody else, and
\* creates no room; the caller goes to idle on peer-declined; none of the three
\* steps starts startCallSession.
C16_Decline ==
    [][\A s \in Sockets :
        /\ (ModalShown(s) /\ Len(toServer'[s]) > Len(toServer[s])
                /\ toServer'[s][Len(toServer'[s])].name = "call-declined") =>
              /\ toServer'[s][Len(toServer'[s])].to = ui[s].incomingCallData
              /\ ui'[s].callState = "idle"
              /\ ui'[s].incomingCallData = NoCall
              /\ ui'[s].setups = ui[s].setups
        /\ ServerHandles(s, "call-declined") =>
              LET to == Head(toServer[s]).to IN
              /\ toClient' = IF Connected(to)
                             THEN [toClient EXCEPT
                                      ![to] = Append(@, Evt("peer-declined", NoCall, NoRoom))]
                             ELSE toClient
              /\ rooms' = rooms
              /\ creating' = creating
        /\ ClientHandles(s, "peer-declined") =>
              /\ ui'[s].callState = "idle"
              /\ ui'[s].setups = ui[s].setups]_vars
\* the caller has handled the decline: both sides idle, no room, no setup
C16_Declined ==
    /\ did.name = "peer-declined"
    /\ \A s \in Sockets : /\ ui[s].callState = "idle"
                          /\ ui[s].incomingCallData = NoCall
                          /\ ui[s].setups = 0
    /\ rooms = EmptyMap

\* C19: a client waiting for an accept or a decline (calling, or receiving with
\* the modal open) eventually leaves that state, whatever the users do.
C19_PendingCallEnds ==
    \A s \in Sockets :
        (ui[s].callState \in {"calling", "receiving"})
            ~> (ui[s].callState \notin {"calling", "receiving"})

\* C15: when the remote side's last producer is closed (the remote hung up or its
\* connection dropped) during an active call, the client has torn the call down:
\* the state is idle, both transports are released and the local stream is stopped.
C15_RemoteEndTearsDown ==
    (/\ lastEvent.name = "producer-closed"
     /\ lastEvent.had >= 1
     /\ remotePeers = EmptyMap)
        => /\ callState = "idle"
           /\ sendTransportRef = 0
           /\ recvTransportRef = 0
           /\ localStream = 0

\* C17: once the call was hung up (leaveCall, a disconnect or a failed media
\* request), a step of the setup that was still running changes nothing of the
\* application state: its late result is ignored.
C17_LateResultsIgnored ==
    [][(/\ lastEvent.name \in Hangups
        /\ Len(sessions') = Len(sessions)
        /\ sessions' # sessions
        /\ lastEvent'.name \notin Hangups)
           => <<callVars, mediaVars, remoteVars, refVars>>'
                  = <<callVars, mediaVars, remoteVars, refVars>>]_vars

\* C18: whichever step of the call setup fails, the step that records the
\* failure leaves the client torn down and idle.
C18_SetupFailureAborts ==
    [][\A n \in DOMAIN sessions :
          (/\ n \in DOMAIN sessions'
           /\ sessions[n] # "failed"
           /\ sessions'[n] = "failed")
              => /\ callState' = "idle"
                 /\ sendTransportRef' = 0
                 /\ recvTransportRef' = 0
                 /\ localStream' = 0]_vars

\* ------------------------------------------------------------ refused requests
\* the guards of the handlers that take a callback: what a request gets back when
\* its room, its peer or its transport is not there
Reply(request, violation, reply) ==
    [request |-> request, violation |-> violation, reply |-> reply]

\* const room = rooms[currentRoomName]; const peer = room.peers.get(socket.id);
\* const transport = peer.transports.get(transportId): all three are there
KnownTransport(s, transportId) ==
    LET r == currentRoomName[s]
    IN  /\ r \in DOMAIN rooms
        /\ s \in DOMAIN rooms[r].peers
        /\ transportId \in SeqSet(rooms[r].peers[s].transports)

\* socket.on('getRouterRtpCapabilities'): if (room) callback(room.router.rtpCapabilities)
GetRouterRtpCapabilities(s, roomName) ==
    /\ Connected(s)
    /\ lastReply' = IF roomName \in DOMAIN rooms
                    THEN Reply("getRouterRtpCapabilities", FALSE, "result")
                    ELSE Reply("getRouterRtpCapabilities", TRUE, "none")
    /\ UNCHANGED <<mediaProbeVars, signalVars, bindVars, contactVars, relayVars, serverVars, sentVars, clientVars>>

\* socket.on('joinRoom'): if (!rooms[roomName]) { console.error(...); return; }
JoinRoomNoRoom(s, roomName) ==
    /\ Connected(s)
    /\ roomName \notin DOMAIN rooms
    /\ lastReply' = Reply("joinRoom", TRUE, "none")
    /\ UNCHANGED <<mediaProbeVars, signalVars, bindVars, contactVars, relayVars, serverVars, sentVars, clientVars>>

\* socket.on('createWebRtcTransport'): if (!room) return;
CreateWebRtcTransportNoRoom(s) ==
    /\ Connected(s)
    /\ currentRoomName[s] \notin DOMAIN rooms
    /\ lastReply' = Reply("createWebRtcTransport", TRUE, "none")
    /\ UNCHANGED <<mediaProbeVars, signalVars, bindVars, contactVars, relayVars, serverVars, sentVars, clientVars>>

\* socket.on('connectTransport'): the three guards return; await transport.connect;
\* callback().  When the await rejects (connects = FALSE) the callback is not called.
ConnectTransport(s, transportId, connects) ==
    /\ Connected(s)
    /\ lastReply' = IF ~KnownTransport(s, transportId)
                    THEN Reply("connectTransport", TRUE, "none")
                    ELSE Reply("connectTransport", FALSE,
                               IF connects THEN "result" ELSE "none")
    /\ UNCHANGED <<mediaProbeVars, signalVars, bindVars, contactVars, relayVars, serverVars, sentVars, clientVars>>

\* socket.on('produce'): if (!room) return; if (!peer) return; if (!transport) return;
ProduceNoTransport(s, transportId) ==
    /\ Connected(s)
    /\ ~KnownTransport(s, transportId)
    /\ lastReply' = Reply("produce", TRUE, "none")
    /\ UNCHANGED <<mediaProbeVars, signalVars, bindVars, contactVars, relayVars, serverVars, sentVars, clientVars>>

\* socket.on('consume'): none of the three error replies is taken
ConsumeServed(s, producerId) ==
    LET r == currentRoomName[s]
    IN  /\ r \in DOMAIN rooms
        /\ CanConsume(r, producerId)
        /\ s \in DOMAIN rooms[r].peers
        /\ RecvTransports(rooms[r].peers[s].transports) # {}

\* socket.on('consume'): callback({ error: 'Cannot consume' }),
\* callback({ error: 'Peer not found' }), callback({ error: 'No recv transport found' })
ConsumeRefused(s, producerId) ==
    /\ Connected(s)
    /\ ~ConsumeServed(s, producerId)
    /\ lastReply' = Reply("consume", TRUE, "error")
    /\ UNCHANGED <<mediaProbeVars, signalVars, bindVars, contactVars, relayVars, serverVars, sentVars, clientVars>>

\* the server setting up rooms, peers, transports and producers, with the
\* refused requests next to the served ones
ProtocolNext ==
    \/ \E s \in Sockets : Connection(s)
    \/ \E s \in Sockets, to \in Sockets : CallAccepted(s, to)
    \/ \E r \in RoomNames : CreateRoomDone(r)
    \/ \E s \in Sockets, r \in RoomNames : JoinRoom(s, r)
    \/ \E s \in Sockets : LeaveRoom(s)
    \/ \E s \in Sockets, isSender \in BOOLEAN : CreateWebRtcTransport(s, isSender)
    \/ \E t \in TransportIds : CreateWebRtcTransportDone(t)
    \/ \E s \in Sockets, t \in TransportIds : Produce(s, t)
    \/ \E p \in ProducerIds : ProduceDone(p)
    \/ \E s \in Sockets, roomName \in RoomNames : GetRouterRtpCapabilities(s, roomName)
    \/ \E s \in Sockets, roomName \in RoomNames : JoinRoomNoRoom(s, roomName)
    \/ \E s \in Sockets : CreateWebRtcTransportNoRoom(s)
    \/ \E s \in Sockets, transportId \in TransportIds, connects \in BOOLEAN :
           ConnectTransport(s, transportId, connects)
    \/ \E s \in Sockets, transportId \in TransportIds : ProduceNoTransport(s, transportId)
    \/ \E s \in Sockets, producerId \in ProducerIds : ConsumeRefused(s, producerId)
SpecProtocol == Init /\ [][ProtocolNext]_vars

\* C20: a request that breaks the protocol (a room that does not exist, a
\* transport request before joining or with an unknown transport id) is answered
\* with an explicit error reply.
C20_ViolationsAnswered == lastReply.violation => lastReply.reply = "error"

\* C21: a createWebRtcTransport request of a socket that has no PeerSession in
\* its room leaves no transport behind: a transport that opens is held by the
\* PeerSession of the socket that asked for it.
C21_TransportNeedsPeer ==
    [][\A t \in DOMAIN transportObj :
          (transportObj[t].state = "pending" /\ transportObj'[t].state = "open")
              => \E r \in DOMAIN rooms' :
                    /\ transportObj[t].socket \in DOMAIN rooms'[r].peers
                    /\ t \in SeqSet(rooms'[r].peers[transportObj[t].socket].transports)]_vars

\* C22: produce is served on send transports only: every producer sits on a
\* transport that was created with isSender true.
C22_ProduceOnSendTransport ==
    \A p \in DOMAIN producerObj : transportObj[producerObj[p].transport].isSender = TRUE

\* ------------------------------------------------------------ the consumer's transport
\* how the consume handler picks the transport of the requesting peer, in
\* src/server.js and in the server of part_005
MaxPeerTransports == 4
TransportOrders == UNION {[1..n -> BOOLEAN] : n \in 0..MaxPeerTransports}
FirstIndex(S) == IF S = {} THEN 0 ELSE CHOOSE i \in S : \A j \in S : i <= j

\* transport.appData.isSender after createWebRtcTransport({ ..., appData: { isSender } })
AppDataTagged(isSender) == IF isSender THEN "true" ELSE "false"
\* ... after createWebRtcTransport(mediasoupConfig.webRtcTransport): no appData
AppDataUntagged(isSender) == "undefined"
\* peer.producers.has(transport.id): the map is keyed by producer ids
ProducersHas(i) == FALSE

\* Array.from(peer.transports.values()).find(t => t.appData.isSender !== true)
findRecvTransport(q) == FirstIndex({i \in 1..Len(q) : AppDataTagged(q[i]) # "true"})
\* part_005: the first transport with appData.isSender !== true, else the first
\* transport with !peer.producers.has(transport.id)
pickRecvTransport(q) ==
    LET notSender == FirstIndex({i \in 1..Len(q) : AppDataUntagged(q[i]) # "true"})
    IN  IF notSender # 0 THEN notSender
        ELSE FirstIndex({i \in 1..Len(q) : ~ProducersHas(i)})

\* socket.on('consume') of src/server.js, from the peer lookup to the transport
ConsumeTagged ==
    /\ bound' = [by |-> "server.js", transport |-> findRecvTransport(peerSetup.asked)]
    /\ UNCHANGED <<peerSetup, mediaProbeVars, signalVars, replyVars, contactVars, relayVars,
                   serverVars, sentVars, clientVars>>
\* socket.on('consume') of part_005, from the peer lookup to the transport
ConsumeUntagged ==
    /\ bound' = [by |-> "part_005", transport |-> pickRecvTransport(peerSetup.asked)]
    /\ UNCHANGED <<peerSetup, mediaProbeVars, signalVars, replyVars, contactVars, relayVars,
                   serverVars, sentVars, clientVars>>

\* every order of send and recv transports, before and after the peer produced
InitBinding ==
    /\ InitApp
    /\ InitMediaProbe
    /\ InitSignal
    /\ InitReply
    /\ InitContacts
    /\ InitRelay
    /\ peerSetup \in [asked : TransportOrders, produced : BOOLEAN]
    /\ bound = NotBound
BindingNext == ConsumeTagged \/ ConsumeUntagged
SpecBinding == InitBinding /\ [][BindingNext]_vars

\* C23: the transport a consume request is served on was created as a recv
\* transport (isSender false), and a peer without one gets an error reply and
\* no consumer.
C23_ConsumeOnRecvTransport ==
    bound.by # "none" =>
        IF \E i \in 1..Len(peerSetup.asked) : ~peerSetup.asked[i]
        THEN bound.transport # 0 /\ ~peerSetup.asked[bound.transport]
        ELSE bound.transport = 0

\* ------------------------------------------------------------ resume
\* socket.on('resume') with the consumer looked up in every PeerSession of the room
ResumeAnyPeer(s, consumerId) ==
    LET r == currentRoomName[s]
    IN  /\ Connected(s)
        /\ consumerObj' =
               IF /\ r \in DOMAIN rooms
                  /\ \E q \in DOMAIN rooms[r].peers : consumerId \in rooms[r].peers[q].consumers
               THEN [consumerObj EXCEPT ![consumerId].paused = FALSE,
                                        ![consumerId].resumedBy = s]
               ELSE consumerObj
        /\ UNCHANGED <<sockState, currentRoomName, sioRooms, rooms, nextRouter, routerClosed,
                       creating, transportObj, producerObj, joinSeq, sentVars, clientVars,
                       extVars>>

\* socket.on('resume'): the three guards on room, peer and
\* peer.consumers.get(consumerId) return; await consumer.resume()
Resume(s, consumerId) ==
    LET r == currentRoomName[s]
    IN  /\ Connected(s)
        /\ consumerObj' =
               IF /\ r \in DOMAIN rooms
                  /\ s \in DOMAIN rooms[r].peers
                  /\ consumerId \in rooms[r].peers[s].consumers
               THEN [consumerObj EXCEPT ![consumerId].paused = FALSE,
                                        ![consumerId].resumedBy = s]
               ELSE consumerObj
        /\ UNCHANGED <<sockState, currentRoomName, sioRooms, rooms, nextRouter, routerClosed,
                       creating, transportObj, producerObj, joinSeq, sentVars, clientVars,
                       extVars>>

\* the server in the first call (one accepted call, one joinRoom per socket) up
\* to the resume of a consumer, and the App up to the resume it emits.  The App
\* is not one of the sockets of the server model and shares no variable with
\* it: the two are run one at a time, each from its first step.
ServerUntouched == \A s \in Sockets : sockState[s] = "new"
ResumeNext ==
    \/ \E s \in Sockets : ~myId /\ Connection(s)
    \/ \E s \in Sockets, to \in Sockets :
           nextRouter + SumCreating(RoomNames) = 0 /\ CallAccepted(s, to)
    \/ \E r \in RoomNames : CreateRoomDone(r)
    \/ \E s \in Sockets, r \in RoomNames : joinSeq[s] = 0 /\ JoinRoom(s, r)
    \/ \E s \in Sockets, isSender \in BOOLEAN : CreateWebRtcTransport(s, isSender)
    \/ \E t \in TransportIds : CreateWebRtcTransportDone(t)
    \/ \E s \in Sockets, t \in TransportIds : Produce(s, t)
    \/ \E p \in ProducerIds : ProduceDone(p)
    \/ \E s \in Sockets, p \in ProducerIds : Consume(s, p)
    \/ \E c \in ConsumerIds : ConsumeDone(c)
    \/ \E c \in ConsumerIds : ConsumeFailed(c)
    \/ \E s \in Sockets, consumerId \in ConsumerIds : Resume(s, consumerId)
    \/ ServerUntouched /\ OnConnect
    \/ \E roomName \in ClientRooms : sessions = <<>> /\ OnCallStarted(roomName)
    \/ \E n \in SessionIds : getMediaStreamDone(n)
    \/ \E n \in SessionIds : OnRouterRtpCapabilities(n)
    \/ \E n \in SessionIds : DeviceLoaded(n)
    \/ \E n \in SessionIds : OnJoinRoomReply(n)
    \/ \E n \in SessionIds : OnSendTransport(n)
    \/ \E n \in SessionIds : OnRecvTransport(n)
    \/ \E n \in SessionIds, existingProducers \in SUBSET HangupProducers :
           produceStreamDone(n, existingProducers)
    \/ \E producerId \in HangupProducers : OnNewProducer(producerId)
    \/ \E k \in ConsumeIds, ok \in BOOLEAN : OnConsumeReply(k, ok)
    \/ \E k \in ConsumeIds : ConsumeBound(k)
    \/ \E k \in ConsumeIds : ConsumeBindFailed(k)
    \/ \E producerId \in HangupProducers : OnProducerClosed(producerId)
    \/ leaveCall
SpecResume == Init /\ [][ResumeNext]_vars

\* C24: a consumer is paused until a resume request of the socket that owns it
\* is served, which happens only after the consumer was created and registered;
\* the App has emitted resume only for consume calls whose consumer it has bound
\* to its recv transport.
C24_ResumedByOwner ==
    /\ \A c \in DOMAIN consumerObj :
          ~consumerObj[c].paused =>
              /\ consumerObj[c].state \in {"open", "closed"}
              /\ consumerObj[c].resumedBy = consumerObj[c].socket
    /\ \A k \in DOMAIN consumeCalls :
          consumeCalls[k].resumeSent =>
              /\ consumeCalls[k].stage \in {"open", "closed"}
              /\ consumeCalls[k].transport # 0
\* a consumer was resumed while a second socket is in its room
C24_Resumed ==
    \E c \in DOMAIN consumerObj :
        /\ ~consumerObj[c].paused
        /\ \E r \in DOMAIN rooms :
              /\ consumerObj[c].socket \in DOMAIN rooms[r].peers
              /\ Cardinality(DOMAIN rooms[r].peers) = 2

\* C25: a socket has a PeerSession in at most one room, and in none after its
\* disconnect.
C25_OneRoomPerSocket ==
    \A s \in Sockets :
        LET in == {r \in DOMAIN rooms : s \in DOMAIN rooms[r].peers}
        IN  /\ Cardinality(in) <= 1
            /\ sockState[s] = "gone" => in = {}

\* C26: getRouterRtpCapabilities creates the room when it is absent, so the
\* request is always answered with the capability descriptor of a room.
C26_CapabilitiesAlwaysReplied ==
    lastReply.request = "getRouterRtpCapabilities" =>
        /\ lastReply.reply = "result"
        /\ rooms # EmptyMap

\* ------------------------------------------------------------ repeated call-started
\* the transports the startCallSession runs created with device.createSendTransport
\* and device.createRecvTransport and nothing has closed (a run that failed is
\* left out: where it failed is not kept)
OpenSendTransports ==
    {2 * n - 1 : n \in {m \in DOMAIN sessions : sessions[m] \in {"recv", "produce", "done"}}}
        \ closedTransports
OpenRecvTransports ==
    {2 * n : n \in {m \in DOMAIN sessions : sessions[m] \in {"produce", "done"}}}
        \ closedTransports

\* the App with call-started delivered again while a call is being set up or
\* is running
RecallNext ==
    \/ OnConnect
    \/ \E roomName \in ClientRooms : OnCallStarted(roomName)
    \/ \E n \in SessionIds : getMediaStreamDone(n)
    \/ \E n \in SessionIds : OnRouterRtpCapabilities(n)
    \/ \E n \in SessionIds : DeviceLoaded(n)
    \/ \E n \in SessionIds : OnJoinRoomReply(n)
    \/ \E n \in SessionIds : OnSendTransport(n)
    \/ \E n \in SessionIds : OnRecvTransport(n)
    \/ \E n \in SessionIds : produceStreamDone(n, {})
    \/ leaveCall
SpecRecall == Init /\ [][RecallNext]_vars

\* C27: the App holds at most one open send transport and at most one open recv
\* transport, also when call-started is delivered more than once.
C27_OneTransportPerDirection ==
    /\ Cardinality(OpenSendTransports) <= 1
    /\ Cardinality(OpenRecvTransports) <= 1

\* ------------------------------------------------------------ subscribing
\* the App in its first call when nothing fails, nothing closes and nobody hangs
\* up: the setup steps, the snapshot loop, new-producer events at any time, and
\* the consume calls up to the bound consumer
SubscribeSteps ==
    \/ \E n \in SessionIds : getMediaStreamDone(n)
    \/ \E n \in SessionIds : OnRouterRtpCapabilities(n)
    \/ \E n \in SessionIds : DeviceLoaded(n)
    \/ \E n \in SessionIds : OnJoinRoomReply(n)
    \/ \E n \in SessionIds : OnSendTransport(n)
    \/ \E n \in SessionIds : OnRecvTransport(n)
    \/ \E n \in SessionIds, existingProducers \in SUBSET RemoteProducers :
           produceStreamDone(n, existingProducers)
    \/ \E k \in ConsumeIds : OnConsumeReply(k, TRUE)
    \/ \E k \in ConsumeIds : ConsumeBound(k)
SubscribeNext ==
    \/ OnConnect
    \/ \E roomName \in ClientRooms : sessions = <<>> /\ OnCallStarted(roomName)
    \/ \E producerId \in RemoteProducers : OnNewProducer(producerId)
    \/ SubscribeSteps
\* every promise the setup awaits resolves and every reply arrives
SpecSubscribe == Init /\ [][SubscribeNext]_vars /\ WF_vars(SubscribeSteps)

\* the joinRoom reply has arrived: the server delivers new-producer to this socket
Joined == \E n \in DOMAIN sessions : sessions[n] \in {"send", "recv", "produce", "done"}
Consumed(p) ==
    \E k \in DOMAIN consumeCalls :
        consumeCalls[k].producer = p /\ consumeCalls[k].resumeSent

\* C28: a producer announced by new-producer after the join reply is eventually
\* consumed and resumed.
C28_AnnouncedProducersConsumed ==
    \A p \in RemoteProducers :
        (lastEvent.name = "new-producer" /\ lastEvent.arg = <<p>> /\ Joined) ~> Consumed(p)

\* C29: when producer-closed for P was handled while the consume of P was still
\* in flight, the consume result that is applied next is skipped: it leaves no
\* consumer entry and no remote track for P.
C29_LateConsumeSkipped ==
    [][\A p \in RemoteProducers :
          (/\ lastEvent.name = "producer-closed"
           /\ lastEvent.arg = <<p>>
           /\ lastEvent'.name = "consume"
           /\ lastEvent'.arg[1] = p)
              => /\ p \notin DOMAIN consumers'
                 /\ \A id \in DOMAIN remotePeers' :
                       /\ remotePeers'[id].videoProducerId # p
                       /\ remotePeers'[id].audioProducerId # p]_vars

SetupOrder == <<"media", "caps", "load", "join", "send", "recv", "produce", "done">>

C31_TeardownReleasesAll ==
    lastEvent.name \in Hangups
        => /\ leaked = {}
           /\ analysisRefs = EmptyMap
           /\ liveStreams = {}
           /\ sendTransportRef = 0
           /\ recvTransportRef = 0
           /\ \A k \in DOMAIN consumeCalls : consumeCalls[k].stage # "open"
           /\ consumers = EmptyMap
           /\ remotePeers = EmptyMap
           /\ speakingStates = EmptyMap

\* C32: once stopAudioAnalysis(id) has run, the sampling loop of id runs no more:
\* speakingStates has an entry for id only while analysisRefs holds the analysis
\* of id, and no loop goes on without an analysisRefs entry.
C32_StoppedLoopIsSilent ==
    /\ leaked = {}
    /\ DOMAIN speakingStates \subseteq DOMAIN analysisRefs

RetriedErrors == {"OverconstrainedError", "NotFoundError", "NotReadableError"}

C34_NoConsumerOfClosedProducer ==
    \A r \in DOMAIN rooms : \A s \in DOMAIN rooms[r].peers :
        \A c \in rooms[r].peers[s].consumers :
            producerObj[consumerObj[c].producer].state # "closed"

\* C35: the rooms of the calls between one pair of participants are one room:
\* two room names made for the same two identities are equal.
C35_OneRoomPerPair ==
    \A r1 \in DOMAIN rooms, r2 \in DOMAIN rooms :
        SeqSet(r1) = SeqSet(r2) => r1 = r2

\* C36: a room entry of the registry is never replaced: while a room name stays
\* registered it keeps its router, and every PeerSession registered under it
\* stays registered, except the one its own socket's disconnect removes.
C36_RoomNeverReplaced ==
    [][\A r \in DOMAIN rooms :
          r \in DOMAIN rooms'
              => /\ rooms'[r].router = rooms[r].router
                 /\ \A s \in DOMAIN rooms[r].peers :
                       s \in DOMAIN rooms'[r].peers \/ sockState'[s] = "gone"]_vars

\* C37: on each connection at most one startCallSession run is under way: a
\* call-started that arrives while a run has not finished starts no second run.
C37_OneSetupAtATime ==
    \A s \in Sockets : ui[s].setups <= 1

\* C38: a connection's client starts startCallSession, on call-started, only
\* with callState calling or receiving, and it becomes in-call only from one of
\* these two states.
C38_SetupOnlyFromACall ==
    [][\A s \in Sockets :
          /\ ClientHandles(s, "call-started")
                 => ui[s].callState \in {"calling", "receiving"}
          /\ (ui[s].callState # "in-call" /\ ui'[s].callState = "in-call")
                 => ui[s].callState \in {"calling", "receiving"}]_vars

\* ------------------------------------------------------------ the contacts server
\* src/unnamed/part_007, the user registry of the sockets that never joined a
\* room (currentRoomName is null, so cleanupPeer returns after the registry part)
appVars == <<serverVars, sentVars, clientVars, mediaProbeVars, signalVars, replyVars, bindVars>>

\* io.on('connection')
ContactConnection(s) ==
    /\ contactSock[s] = "new"
    /\ contactSock' = [contactSock EXCEPT ![s] = "connected"]
    /\ UNCHANGED <<users, socketToUser, registered, relayVars, appVars>>

\* socket.on('register', (deviceId) => ...)
Register(s, deviceId) ==
    /\ contactSock[s] = "connected"
    /\ users' = MapPut(users, deviceId, s)
    /\ socketToUser' = MapPut(socketToUser, s, deviceId)
    /\ registered' = [registered EXCEPT ![deviceId] = s]
    /\ UNCHANGED <<contactSock, relayVars, appVars>>

\* socket.on('disconnect') -> cleanupPeer(): the deviceId of the socket is looked
\* up in socketToUser and deleted from users, whichever socket users holds for it
cleanupPeer(s) ==
    /\ contactSock[s] = "connected"
    /\ contactSock' = [contactSock EXCEPT ![s] = "gone"]
    /\ IF s \in DOMAIN socketToUser
       THEN /\ users' = MapDel(users, socketToUser[s])
            /\ socketToUser' = MapDel(socketToUser, s)
       ELSE UNCHANGED <<users, socketToUser>>
    /\ UNCHANGED <<registered, relayVars, appVars>>

ContactsNext ==
    \/ \E s \in ContactSockets : ContactConnection(s)
    \/ \E s \in ContactSockets, deviceId \in DeviceIds : Register(s, deviceId)
    \/ \E s \in ContactSockets : cleanupPeer(s)
SpecContacts == Init /\ [][ContactsNext]_vars

\* C39: while the socket that registered a deviceId last is connected, users maps
\* the deviceId to it, and users and socketToUser are inverse to each other.
C39_NewestRegistrationKept ==
    /\ \A d \in DeviceIds :
          (registered[d] # NoSocket /\ contactSock[registered[d]] = "connected")
              => (d \in DOMAIN users /\ users[d] = registered[d])
    /\ \A d \in DOMAIN users :
          users[d] \in DOMAIN socketToUser /\ socketToUser[users[d]] = d
    /\ \A s \in DOMAIN socketToUser :
          socketToUser[s] \in DOMAIN users /\ users[socketToUser[s]] = s

\* ------------------------------------------------------------ the WebSocket signaling server
\* src/unnamed/part_004 (src/unnamed/part_003 has the same handlers behind https)
\* wss.on('connection')
WsConnection(c) ==
    /\ wsState[c] = "new"
    /\ wsState' = [wsState EXCEPT ![c] = "open"]
    /\ UNCHANGED <<clientRoom, wsRooms, relayed, contactVars, appVars>>

\* case 'join': clientRoom = data.room, then the first client creates the room,
\* the second is pushed (and 'ready' goes to the first), a later one gets 'full'
WsJoin(c, room) ==
    /\ wsState[c] = "open"
    /\ clientRoom' = [clientRoom EXCEPT ![c] = room]
    /\ wsRooms' = IF room \notin DOMAIN wsRooms THEN MapPut(wsRooms, room, <<c>>)
                  ELSE IF Len(wsRooms[room]) = 1
                  THEN [wsRooms EXCEPT ![room] = Append(@, c)]
                  ELSE wsRooms
    /\ UNCHANGED <<wsState, relayed, contactVars, appVars>>

\* rooms[clientRoom].find(client => client !== ws)
OtherClient(q, c) ==
    LET Test(x) == x # c
        found == SelectSeq(q, Test)
    IN  IF found = <<>> THEN NoSocket ELSE Head(found)

\* case 'offer' / 'answer' / 'ice-candidate'
WsRelay(c) ==
    LET r == clientRoom[c]
        otherClient == IF r \in DOMAIN wsRooms /\ Len(wsRooms[r]) = 2
                       THEN OtherClient(wsRooms[r], c) ELSE NoSocket
    IN  /\ wsState[c] = "open"
        /\ relayed' = [from |-> c,
                       to |-> IF otherClient # NoSocket /\ wsState[otherClient] = "open"
                              THEN otherClient ELSE NoSocket,
                       room |-> IF r \in DOMAIN wsRooms THEN wsRooms[r] ELSE <<>>]
        /\ UNCHANGED <<wsState, clientRoom, wsRooms, contactVars, appVars>>

\* ws.on('close'): the client is filtered out of rooms[clientRoom]; an empty room
\* is deleted
WsClose(c) ==
    LET r == clientRoom[c]
        Test(x) == x # c
    IN  /\ wsState[c] = "open"
        /\ wsState' = [wsState EXCEPT ![c] = "closed"]
        /\ wsRooms' = IF r \notin DOMAIN wsRooms THEN wsRooms
                      ELSE IF SelectSeq(wsRooms[r], Test) = <<>> THEN MapDel(wsRooms, r)
                      ELSE [wsRooms EXCEPT ![r] = SelectSeq(@, Test)]
        /\ UNCHANGED <<clientRoom, relayed, contactVars, appVars>>

RelayNext ==
    \/ \E c \in WsClients : WsConnection(c)
    \/ \E c \in WsClients, room \in WsRoomNames : WsJoin(c, room)
    \/ \E c \in WsClients : WsRelay(c)
    \/ \E c \in WsClients : WsClose(c)
SpecRelay == Init /\ [][RelayNext]_vars

\* C40: an offer, answer or ice-candidate is relayed only between the two
\* members of one room: the sender of a relayed message is in the client list of
\* the room whose member received it.
C40_RelayWithinRoom ==
    relayed.to # NoSocket
        => /\ relayed.from \in SeqSet(relayed.room)
           /\ relayed.to \in SeqSet(relayed.room)
           /\ relayed.to # relayed.from

====
